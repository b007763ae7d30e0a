---------------------------- MODULE MemoryProofs ----------------------------
(***************************************************************************)
(* Proofs about Memory and what it is built on, Server and Wire, for any   *)
(* number of tasks, any sizes, any messages in any pieces.                 *)
(***************************************************************************)
EXTENDS Memory, ListLemmas, FiniteSetTheorems, TLAPS

-----------------------------------------------------------------------------
(* The bytes of a message. *)

LEMMA Layout ==
  /\ Len(Words) = 7 /\ DOMAIN Words = 1 .. 7 /\ Len(Bytes) = 2 /\ DOMAIN Bytes = 1 .. 2
  /\ HEADER = 16
<1>1. Len(Words) = 7 /\ DOMAIN Words = 1 .. 7
  BY DEF Words
<1>2. Len(Bytes) = 2 /\ DOMAIN Bytes = 1 .. 2
  BY DEF Bytes
<1> QED
  BY <1>1, <1>2 DEF HEADER

LEMMA FieldNames ==
  /\ Range(Words) = {"vm_src", "vm_dst", "task_src", "task_dst", "seq", "payload_size", "crc"}
  /\ Range(Bytes) = {"frag_id", "frag_total"}
  /\ Fields = Range(Words) \cup Range(Bytes) \cup {"payload"}
<1>1. \A x : x \in Range(Words) <=> \E i \in 1 .. 7 : x = Words[i]
  BY Layout DEF Range
<1>2. \A x : (\E i \in 1 .. 7 : x = Words[i]) <=>
        x \in {Words[1], Words[2], Words[3], Words[4], Words[5], Words[6], Words[7]}
  OBVIOUS
<1>3. Range(Words) = {"vm_src", "vm_dst", "task_src", "task_dst", "seq", "payload_size", "crc"}
  BY <1>1, <1>2 DEF Words
<1>4. Range(Bytes) = {"frag_id", "frag_total"}
  BY Layout DEF Range, Bytes
<1> QED
  BY <1>3, <1>4 DEF Fields

LEMMA Places ==
  /\ \A i \in 1 .. 7 : At(Words, Words[i]) = i
  /\ \A i \in 1 .. 2 : At(Bytes, Bytes[i]) = i
<1>1. ASSUME NEW i \in 1 .. 7, NEW j \in 1 .. 7, Words[i] = Words[j]
      PROVE  i = j
  BY <1>1 DEF Words
<1>2. ASSUME NEW i \in 1 .. 2, NEW j \in 1 .. 2, Bytes[i] = Bytes[j]
      PROVE  i = j
  BY <1>2 DEF Bytes
<1> QED
  BY <1>1, <1>2, Layout DEF At

LEMMA TwoBytes ==
  ASSUME NEW b \in Nat \ {0}, NEW c \in Nat
  PROVE  (c % b) + b * (c \div b) = c
OBVIOUS

LEMMA ByteOfWord ==
  ASSUME NEW b \in Nat \ {0}, NEW c \in 0 .. b * b - 1
  PROVE  c % b \in 0 .. b - 1 /\ c \div b \in 0 .. b - 1
OBVIOUS

(* What message_serialize writes where. *)
LEMMA Serialized ==
  ASSUME NEW msg \in MessageStruct
  PROVE  LET s == message_serialize(msg) IN
         /\ s \in Seq(Byte)
         /\ Len(s) = HEADER + Len(msg.payload)
         /\ \A i \in 1 .. 7 : s[2 * i - 1] = msg[Words[i]] % B /\ s[2 * i] = msg[Words[i]] \div B
         /\ \A i \in 1 .. 2 : s[14 + i] = msg[Bytes[i]]
         /\ \A i \in 1 .. Len(msg.payload) : s[16 + i] = msg.payload[i]
<1> DEFINE word(i) == msg[Words[i]]
           a == [k \in 1 .. 2 * Len(Words) |-> IF k % 2 = 1 THEN word((k + 1) \div 2) % B
                                              ELSE word(k \div 2) \div B]
           b == [i \in DOMAIN Bytes |-> msg[Bytes[i]]]
           p == msg.payload
           s == message_serialize(msg)
<1>1. \A i \in 1 .. 7 : msg[Words[i]] \in Word
  BY DEF Words, MessageStruct
<1>2. \A i \in 1 .. 2 : msg[Bytes[i]] \in Byte
  BY DEF Bytes, MessageStruct
<1>3. p \in Seq(Byte)
  BY DEF MessageStruct
<1>4. ASSUME NEW k \in 1 .. 14
      PROVE  k % 2 = 1 => (k + 1) \div 2 \in 1 .. 7
  OBVIOUS
<1>5. ASSUME NEW k \in 1 .. 14
      PROVE  k % 2 # 1 => k \div 2 \in 1 .. 7
  OBVIOUS
<1>6. a \in Seq(Byte) /\ Len(a) = 14
  <2>1. \A k \in 1 .. 14 : a[k] \in Byte
    <3> SUFFICES ASSUME NEW k \in 1 .. 14 PROVE a[k] \in Byte
      OBVIOUS
    <3>1. CASE k % 2 = 1
      <4>1. a[k] = word((k + 1) \div 2) % B /\ word((k + 1) \div 2) \in Word
        BY <1>1, <1>4, <3>1, Layout
      <4> DEFINE v == word((k + 1) \div 2)
      <4> HIDE DEF a, v, word
      <4>2. v % B \in Byte
        BY <4>1, ByteOfWord, WireAssumption DEF Word, Byte, v
      <4> QED
        BY <4>1, <4>2 DEF v
    <3>2. CASE k % 2 # 1
      <4>1. a[k] = word(k \div 2) \div B /\ word(k \div 2) \in Word
        BY <1>1, <1>5, <3>2, Layout
      <4> DEFINE v == word(k \div 2)
      <4> HIDE DEF a, v, word
      <4>2. v \div B \in Byte
        BY <4>1, ByteOfWord, WireAssumption DEF Word, Byte, v
      <4> QED
        BY <4>1, <4>2 DEF v
    <3> QED
      BY <3>1, <3>2
  <2>2. a = [k \in 1 .. 14 |-> a[k]]
    BY Layout
  <2> HIDE DEF a
  <2> QED
    BY <2>1, <2>2
<1>7. b \in Seq(Byte) /\ Len(b) = 2
  BY <1>2, Layout
<1>8. \A i \in 1 .. 7 : a[2 * i - 1] = msg[Words[i]] % B /\ a[2 * i] = msg[Words[i]] \div B
  <2> SUFFICES ASSUME NEW i \in 1 .. 7
               PROVE  a[2 * i - 1] = msg[Words[i]] % B /\ a[2 * i] = msg[Words[i]] \div B
    OBVIOUS
  <2>1. /\ 2 * i - 1 \in 1 .. 14 /\ (2 * i - 1) % 2 = 1 /\ ((2 * i - 1) + 1) \div 2 = i
        /\ 2 * i \in 1 .. 14 /\ (2 * i) % 2 # 1 /\ (2 * i) \div 2 = i
    OBVIOUS
  <2> QED
    BY <2>1, Layout
<1>9. \A i \in 1 .. 2 : b[i] = msg[Bytes[i]]
  BY Layout
<1>10. s = (a \o b) \o p
  BY DEF message_serialize
<1> HIDE DEF a, b, p, s, word
<1> DEFINE h == a \o b
<1>11. /\ h \in Seq(Byte) /\ Len(h) = 16
       /\ \A i \in 1 .. 16 : h[i] = IF i <= 14 THEN a[i] ELSE b[i - 14]
  <2>1. /\ h \in Seq(Byte) /\ Len(h) = Len(a) + Len(b)
        /\ \A i \in 1 .. Len(a) + Len(b) : h[i] = IF i <= Len(a) THEN a[i] ELSE b[i - Len(a)]
    BY <1>6, <1>7, ConcatProperties
  <2> HIDE DEF h
  <2>2. Len(a) + Len(b) = 16
    BY <1>6, <1>7
  <2>3. \A i \in 1 .. 16 : h[i] = IF i <= 14 THEN a[i] ELSE b[i - 14]
    BY <1>6, <2>1, <2>2
  <2> QED
    BY <2>1, <2>2, <2>3
<1> HIDE DEF h
<1>12. /\ s \in Seq(Byte) /\ Len(s) = 16 + Len(p) /\ Len(p) \in Nat
       /\ \A i \in 1 .. 16 + Len(p) : s[i] = IF i <= 16 THEN h[i] ELSE p[i - 16]
  <2>0. h \in Seq(Byte) /\ Len(h) = 16
    BY <1>11
  <2>1. /\ h \o p \in Seq(Byte) /\ Len(h \o p) = Len(h) + Len(p)
        /\ \A i \in 1 .. Len(h) + Len(p) : (h \o p)[i] = IF i <= Len(h) THEN h[i] ELSE p[i - Len(h)]
    BY <1>3, <2>0, ConcatProperties
  <2> DEFINE c == h \o p
  <2>2. s = c
    BY <1>10 DEF h
  <2> HIDE DEF c
  <2>3. Len(p) \in Nat
    BY <1>3
  <2>4. /\ c \in Seq(Byte) /\ Len(c) = 16 + Len(p)
        /\ \A i \in 1 .. 16 + Len(p) : c[i] = IF i <= 16 THEN h[i] ELSE p[i - 16]
    BY <2>0, <2>1 DEF c
  <2> QED
    BY <2>2, <2>3, <2>4, Zenon
<1>13. \A i \in 1 .. 14 : s[i] = a[i]
  <2> SUFFICES ASSUME NEW i \in 1 .. 14 PROVE s[i] = a[i]
    OBVIOUS
  <2>1. Len(p) \in Nat
    BY <1>12
  <2>2. i \in 1 .. 16 /\ i <= 14 /\ i <= 16 /\ i \in 1 .. 16 + Len(p)
    BY <2>1
  <2>3. s[i] = h[i]
    BY <1>12, <2>2
  <2> QED
    BY <1>11, <2>2, <2>3
<1>14. \A i \in 1 .. 7 : s[2 * i - 1] = msg[Words[i]] % B /\ s[2 * i] = msg[Words[i]] \div B
  <2>1. \A i \in 1 .. 7 : 2 * i - 1 \in 1 .. 14 /\ 2 * i \in 1 .. 14
    OBVIOUS
  <2> QED
    BY <1>8, <1>13, <2>1
<1>15. \A i \in 1 .. 2 : s[14 + i] = msg[Bytes[i]]
  <2> SUFFICES ASSUME NEW i \in 1 .. 2 PROVE s[14 + i] = b[i]
    BY <1>9
  <2> DEFINE k == 14 + i
  <2>1. k \in 1 .. 16 /\ k \in Nat /\ k <= 16 /\ ~(k <= 14) /\ k - 14 = i
    OBVIOUS
  <2> HIDE DEF k
  <2>2. Len(p) \in Nat
    BY <1>12
  <2>3. k \in 1 .. 16 + Len(p)
    BY <2>1, <2>2
  <2>4. s[k] = h[k]
    BY <1>12, <2>1, <2>3
  <2>5. h[k] = b[k - 14]
    BY <1>11, <2>1
  <2> QED
    BY <2>1, <2>4, <2>5 DEF k
<1>16. \A i \in 1 .. Len(p) : s[16 + i] = p[i]
  <2> SUFFICES ASSUME NEW i \in 1 .. Len(p) PROVE s[16 + i] = p[i]
    OBVIOUS
  <2>1. 16 + i \in 1 .. 16 + Len(p) /\ ~(16 + i <= 16) /\ (16 + i) - 16 = i
    BY <1>12
  <2> QED
    BY <1>12, <2>1
<1> QED
  BY <1>12, <1>14, <1>15, <1>16, Layout DEF s, p

LEMMA SameSeq ==
  ASSUME NEW S, NEW s \in Seq(S), NEW t \in Seq(S), Len(s) = Len(t),
         \A i \in 1 .. Len(s) : s[i] = t[i]
  PROVE  s = t
OBVIOUS

LEMMA EndOfSeq ==
  ASSUME NEW S, NEW s \in Seq(S), NEW k \in Nat, NEW m \in Nat, Len(s) = k + m
  PROVE  /\ SubSeq(s, k + 1, k + m) \in Seq(S)
         /\ Len(SubSeq(s, k + 1, k + m)) = m
         /\ \A i \in 1 .. m : SubSeq(s, k + 1, k + m)[i] = s[k + i]
<1> DEFINE e == k + 1
           l == k + m
           q == SubSeq(s, e, l)
<1>1. e \in Int /\ l \in Int /\ \A i \in e .. l : s[i] \in S
  BY ElementOfSeq
<1>2. (IF e <= l THEN l - e + 1 ELSE 0) = m /\ l - e + 1 = m
  OBVIOUS
<1>3. \A i \in 1 .. m : e + i - 1 = k + i
  OBVIOUS
<1> HIDE DEF e, l
<1>4. /\ q \in Seq(S) /\ Len(q) = IF e <= l THEN l - e + 1 ELSE 0
      /\ \A i \in 1 .. l - e + 1 : q[i] = s[e + i - 1]
  BY <1>1, SubSeqProperties
<1> HIDE DEF q
<1> QED
  BY <1>2, <1>3, <1>4 DEF q, e, l

LEMMA WordsAreMessageFields ==
  ASSUME NEW msg \in MessageStruct
  PROVE  /\ DOMAIN msg = Fields
         /\ msg = [f \in Fields |-> msg[f]]
         /\ \A f \in Range(Words) : msg[f] \in Word
<1>1. DOMAIN msg = Fields
  BY FieldNames DEF MessageStruct
<1>2. msg = [f \in Fields |-> msg[f]]
  BY <1>1 DEF MessageStruct
<1>3. \A f \in Range(Words) : msg[f] \in Word
  BY FieldNames DEF MessageStruct
<1> QED
  BY <1>1, <1>2, <1>3

(* A message whose bytes are read comes out as it went in, without its       *)
(* payload if not all of that was read (message_deserialize of               *)
(* message_serialize).                                                       *)
LEMMA RoundTrip ==
  ASSUME NEW msg \in MessageStruct, Len(msg.payload) = msg.payload_size,
         NEW n \in 0 .. Len(message_serialize(msg))
  PROVE  message_deserialize(SubSeq(message_serialize(msg), 1, n)) =
           IF n < HEADER THEN NULL
           ELSE IF n < HEADER + msg.payload_size THEN [msg EXCEPT !.payload = <<>>]
           ELSE msg
<1> DEFINE s == message_serialize(msg)
           b == SubSeq(s, 1, n)
           size == msg.payload_size
           word(f) == b[2 * At(Words, f) - 1] + B * b[2 * At(Words, f)]
           byte(f) == b[2 * Len(Words) + At(Bytes, f)]
           r == [f \in Fields |-> IF f \in Range(Words) THEN word(f)
                            ELSE IF f \in Range(Bytes) THEN byte(f)
                            ELSE PayloadIn(b, word("payload_size"))]
<1>1. /\ s \in Seq(Byte) /\ Len(s) = 16 + size /\ size \in Nat
      /\ \A i \in 1 .. 7 : s[2 * i - 1] = msg[Words[i]] % B /\ s[2 * i] = msg[Words[i]] \div B
      /\ \A i \in 1 .. 2 : s[14 + i] = msg[Bytes[i]]
      /\ \A i \in 1 .. size : s[16 + i] = msg.payload[i]
      /\ msg.payload \in Seq(Byte)
  <2>1. size \in Nat /\ msg.payload \in Seq(Byte)
    BY WireAssumption DEF MessageStruct, Word
  <2> HIDE DEF s
  <2> QED
    BY <2>1, Serialized, Layout DEF s
<1>2. b \in Seq(Byte) /\ Len(b) = n /\ \A i \in 1 .. n : b[i] = s[i]
  <2> HIDE DEF s
  <2>1. n \in 0 .. 16 + size
    BY <1>1 DEF s
  <2>2. \A i \in 1 .. n : s[i] \in Byte
    <3> SUFFICES ASSUME NEW i \in 1 .. n PROVE s[i] \in Byte
      OBVIOUS
    <3>1. s \in Seq(Byte) /\ Len(s) = 16 + size /\ size \in Nat
      BY <1>1, Zenon
    <3> HIDE DEF size
    <3>2. i \in 1 .. Len(s)
      BY <2>1, <3>1
    <3> QED
      BY <3>1, <3>2, ElementOfSeq
  <2>3. /\ b \in Seq(Byte) /\ Len(b) = IF 1 <= n THEN n - 1 + 1 ELSE 0
        /\ \A i \in 1 .. n - 1 + 1 : b[i] = s[1 + i - 1]
    BY <1>1, <2>1, <2>2, SubSeqProperties
  <2> HIDE DEF b
  <2> QED
    BY <2>1, <2>3
<1>3. message_deserialize(b) = IF Len(b) < HEADER THEN NULL ELSE r
  BY DEF message_deserialize
<1>4. CASE n < HEADER
  BY <1>2, <1>3, <1>4
<1>5. CASE n >= HEADER
  <2>1. n >= 16 /\ n <= 16 + size /\ n \in Nat
    BY <1>1, <1>5, Layout
  <2> HIDE DEF s, b
  <2>2. \A f \in Range(Words) : word(f) = msg[f]
    <3> SUFFICES ASSUME NEW i \in 1 .. 7 PROVE word(Words[i]) = msg[Words[i]]
      BY Layout DEF Range
    <3>1. At(Words, Words[i]) = i
      BY Places
    <3>2. b[2 * i - 1] = msg[Words[i]] % B /\ b[2 * i] = msg[Words[i]] \div B
      <4>1. 2 * i - 1 \in 1 .. n /\ 2 * i \in 1 .. n
        BY <2>1
      <4> QED
        BY <1>1, <1>2, <4>1
    <3>3. msg[Words[i]] \in Nat
      <4>1. Words[i] \in Range(Words)
        BY Layout DEF Range
      <4> QED
        BY <4>1, WordsAreMessageFields, WireAssumption DEF Word
    <3>4. B \in Nat \ {0}
      BY WireAssumption
    <3> DEFINE v == msg[Words[i]]
    <3> HIDE DEF v
    <3>5. (v % B) + B * (v \div B) = v
      BY <3>3, <3>4, TwoBytes DEF v
    <3> QED
      BY <3>1, <3>2, <3>5 DEF v
  <2>3. \A f \in Range(Bytes) : byte(f) = msg[f]
    <3> SUFFICES ASSUME NEW i \in 1 .. 2 PROVE byte(Bytes[i]) = msg[Bytes[i]]
      BY Layout DEF Range
    <3>1. At(Bytes, Bytes[i]) = i
      BY Places
    <3>2. 14 + i \in 1 .. n
      BY <2>1
    <3>3. b[14 + i] = msg[Bytes[i]]
      BY <1>1, <1>2, <3>2
    <3>4. 2 * Len(Words) = 14
      BY Layout
    <3> QED
      BY <3>1, <3>3, <3>4
  <2>4. word("payload_size") = size
    BY <2>2, FieldNames
  <2>5. PayloadIn(b, size) = IF n < 16 + size THEN <<>> ELSE msg.payload
    <3>1. CASE n < 16 + size
      <4>1. Len(b) = n /\ size \in Nat
        BY <1>1, <1>2, Zenon
      <4>2. ~(16 + size <= Len(b))
        <5> HIDE DEF size
        <5> QED
          BY <2>1, <3>1, <4>1
      <4>3. ~(HEADER + size <= Len(b))
        BY <4>2, Layout, Zenon
      <4>4. PayloadIn(b, size) = <<>>
        BY <4>3, Zenon DEF PayloadIn
      <4> QED
        BY <3>1, <4>4, Zenon
    <3>2. CASE ~(n < 16 + size)
      <4> DEFINE q == SubSeq(b, 16 + 1, 16 + size)
      <4>1. n = 16 + size
        <5>1. size \in Nat
          BY <1>1, Zenon
        <5> HIDE DEF size
        <5> QED
          BY <2>1, <3>2, <5>1
      <4>2. PayloadIn(b, size) = q
        BY <1>2, <4>1, Layout DEF PayloadIn
      <4>3. q \in Seq(Byte) /\ Len(q) = size /\ \A i \in 1 .. size : q[i] = b[16 + i]
        <5>1. b \in Seq(Byte) /\ Len(b) = 16 + size /\ size \in Nat
          BY <1>1, <1>2, <4>1
        <5> DEFINE k == 16
        <5>2. k \in Nat /\ Len(b) = k + size
          BY <5>1
        <5> HIDE DEF size, k
        <5>3. LET t == SubSeq(b, k + 1, k + size) IN
              t \in Seq(Byte) /\ Len(t) = size /\ \A i \in 1 .. size : t[i] = b[k + i]
          BY <5>1, <5>2, EndOfSeq
        <5> QED
          BY <5>3 DEF k
      <4> HIDE DEF q
      <4>4. ASSUME NEW i \in 1 .. size PROVE q[i] = msg.payload[i]
        <5>0. size \in Nat
          BY <1>1, Zenon
        <5> HIDE DEF size, s, b
        <5>1. 16 + i \in 1 .. n
          BY <4>1, <5>0
        <5>2. q[i] = b[16 + i]
          BY <4>3, Zenon
        <5>3. b[16 + i] = s[16 + i]
          BY <1>2, <5>1, Zenon
        <5>4. s[16 + i] = msg.payload[i]
          BY <1>1, Zenon
        <5> QED
          BY <5>2, <5>3, <5>4
      <4>5. q = msg.payload
        <5>1. q \in Seq(Byte) /\ msg.payload \in Seq(Byte) /\ Len(q) = Len(msg.payload)
          BY <1>1, <4>3, Zenon
        <5>2. \A i \in 1 .. Len(q) : q[i] = msg.payload[i]
          BY <4>3, <4>4, Zenon
        <5> HIDE DEF size, s, b
        <5> QED
          BY <5>1, <5>2, SameSeq, Zenon
      <4> QED
        BY <3>2, <4>2, <4>5
    <3> QED
      BY <3>1, <3>2
  <2>6. "payload" \notin Range(Words) /\ "payload" \notin Range(Bytes) /\ "payload" \in Fields
    BY FieldNames
  <2> DEFINE p == PayloadIn(b, size)
  <2>7. \A f \in Fields : r[f] = IF f = "payload" THEN p ELSE msg[f]
    <3> SUFFICES ASSUME NEW f \in Fields PROVE r[f] = IF f = "payload" THEN p ELSE msg[f]
      OBVIOUS
    <3> HIDE DEF p
    <3>1. f \in Range(Words) \/ f \in Range(Bytes) \/ f = "payload"
      BY FieldNames
    <3>2. r[f] = IF f \in Range(Words) THEN word(f)
                 ELSE IF f \in Range(Bytes) THEN byte(f)
                 ELSE p
      BY <2>4 DEF p
    <3> HIDE DEF r, word, byte
    <3> QED
      BY <2>2, <2>3, <2>6, <3>1, <3>2
  <2>8. DOMAIN r = Fields /\ r = [f \in Fields |-> r[f]]
    OBVIOUS
  <2> HIDE DEF r, p
  <2>9. CASE n < 16 + size
    <3>1. p = <<>>
      BY <2>5, <2>9 DEF p
    <3>2. r = [msg EXCEPT !.payload = <<>>]
      BY <2>7, <2>8, <3>1, WordsAreMessageFields
    <3> QED
      BY <1>2, <1>3, <1>5, <2>9, <3>2, Layout DEF s, b
  <2>10. CASE ~(n < 16 + size)
    <3>1. p = msg["payload"]
      BY <2>5, <2>10 DEF p
    <3>2. r = msg
      BY <2>6, <2>7, <2>8, <3>1, WordsAreMessageFields
    <3> QED
      BY <1>2, <1>3, <1>5, <2>10, <3>2, Layout DEF s, b
  <2> QED
    BY <2>9, <2>10
<1> QED
  BY <1>1, <1>4, <1>5, Layout

-----------------------------------------------------------------------------
(* The client whose message the machine reads. *)

Whole(msg) == msg \in MessageStruct /\ Len(msg.payload) = msg.payload_size

ClientInv ==
  /\ reading # NULL => Whole(reading) /\ arrived <= Len(Sent)
  /\ reading = NULL => arrived = 0
  /\ arrived \in Nat

LEMMA BuiltIsWhole ==
  ASSUME NEW size \in TextSizes, NEW d \in Destinations
  PROVE  Whole(Built(size, d))
<1> DEFINE n == size % (B * B)
           text == [i \in 1 .. n |-> 1 + (i % (B - 1))]
<1>1. B \in Nat /\ B > 1 /\ B * B \in Nat /\ B * B > 2 /\ B - 1 \in Nat \ {0}
  BY WireAssumption
<1>2. n \in Word /\ n \in Nat
  BY <1>1, ServerAssumption DEF Word
<1> HIDE DEF n
<1>3. \A i \in 1 .. n : text[i] \in Byte
  <2> SUFFICES ASSUME NEW i \in 1 .. n PROVE 1 + (i % (B - 1)) \in Byte
    OBVIOUS
  <2> DEFINE m == B - 1
  <2>1. m \in Nat \ {0} /\ i \in Nat
    BY <1>1, <1>2
  <2> HIDE DEF m
  <2>2. i % m \in 0 .. m - 1
    BY <2>1
  <2> QED
    BY <1>1, <2>2 DEF Byte, m
<1>4. text \in Seq(Byte) /\ Len(text) = n
  <2>1. text = [i \in 1 .. n |-> text[i]]
    OBVIOUS
  <2> HIDE DEF text
  <2> QED
    BY <1>2, <1>3, <2>1
<1>5. 0 \in Word /\ 1 \in Word /\ B * B - 2 \in Word /\ 0 \in Byte /\ 1 \in Byte /\ d \in Word
  BY <1>1, ServerAssumption DEF Word, Byte
<1>6. Built(size, d) =
        [vm_src |-> 0, vm_dst |-> 1, task_src |-> 0, task_dst |-> d, seq |-> 0,
         payload_size |-> n, crc |-> B * B - 2, frag_id |-> 0, frag_total |-> 1,
         payload |-> text]
  BY DEF Built, n
<1> HIDE DEF text
<1> QED
  BY <1>2, <1>4, <1>5, <1>6 DEF Whole, MessageStruct

LEMMA ClientInit == ServerInit => ClientInv
BY DEF ServerInit, ClientInv

LEMMA ClientStep ==
  ASSUME ClientInv, (reading = NULL /\ Accept) \/ Arrive \/ Close \/ Read \/ Ends \/ UNCHANGED serverVars
  PROVE  ClientInv'
<1>1. CASE Arrive
  <2>1. PICK n \in Pieces : n <= Len(Sent) /\ arrived' = n
    BY <1>1 DEF Arrive
  <2>2. n \in Nat /\ reading' = reading /\ Sent' = Sent /\ reading # NULL
    BY <1>1, ServerAssumption DEF Arrive, Sent
  <2> QED
    BY <2>1, <2>2 DEF ClientInv
<1>2. CASE Close
  BY <1>2 DEF Close, ClientInv, Sent
<1>3. CASE Read
  BY <1>3 DEF Read, ClientInv
<1>4. CASE Ends
  BY <1>4 DEF Ends, ClientInv
<1>5. CASE UNCHANGED serverVars
  BY <1>5 DEF serverVars, ClientInv, Sent
<1>6. CASE reading = NULL /\ Accept
  <2>1. PICK n \in TextSizes, d \in Destinations : reading' = Built(n, d)
    BY <1>6 DEF Accept
  <2>2. Whole(reading') /\ arrived' = 0
    BY <1>6, <2>1, BuiltIsWhole DEF Accept, ClientInv
  <2>3. reading' # NULL
    BY <2>2, WireAssumption DEF Whole
  <2>4. Len(Sent') = 16 + Len(reading'.payload)
    BY <2>2, Serialized, Layout DEF Whole, Sent
  <2>5. Len(reading'.payload) \in Nat
    BY <2>2, WireAssumption DEF Whole, MessageStruct, Word
  <2> QED
    BY <2>2, <2>3, <2>4, <2>5 DEF ClientInv
<1> QED
  BY <1>1, <1>2, <1>3, <1>4, <1>5, <1>6

(* What the machine reads of a client is what RoundTrip says. *)
LEMMA ReadIsSent ==
  ASSUME ClientInv, reading # NULL
  PROVE  Received = IF BytesRead < HEADER THEN NULL
                    ELSE IF BytesRead < HEADER + reading.payload_size
                    THEN [reading EXCEPT !.payload = <<>>]
                    ELSE reading
<1>1. Whole(reading) /\ arrived \in Nat /\ arrived <= Len(Sent) /\ BUFFER_SIZE \in Nat
  BY ServerAssumption DEF ClientInv
<1>2. Len(Sent) \in Nat
  <2>1. Sent \in Seq(Byte)
    BY <1>1, Serialized DEF Whole, Sent
  <2> QED
    BY <2>1
<1>3. BytesRead \in 0 .. Len(Sent)
  BY <1>1, <1>2 DEF BytesRead
<1>4. message_deserialize(SubSeq(Sent, 1, BytesRead)) =
        IF BytesRead < HEADER THEN NULL
        ELSE IF BytesRead < HEADER + reading.payload_size
        THEN [reading EXCEPT !.payload = <<>>]
        ELSE reading
  BY <1>1, <1>3, RoundTrip DEF Whole, Sent
<1> QED
  BY <1>3, <1>4, Layout DEF Received

LEMMA MachineReads == Machine \/ Outside \/ Gone \/ UNCHANGED vars =>
  (reading = NULL /\ Accept) \/ Arrive \/ Close \/ Read \/ Ends \/ UNCHANGED serverVars
<1>1. CASE Start \/ AsyncCall \/ AsyncReturn \/ Halt
  BY <1>1, Zenon DEF Start, AsyncCall, AsyncReturn, Halt, Stop
<1>2. CASE Send \/ Poll \/ Receive \/ ProcessMessage
  BY <1>2, Zenon DEF Send, Poll, Receive, ProcessMessage, Stop, Working, machineVars
<1>3. CASE Outside \/ Gone \/ UNCHANGED vars
  BY <1>3, Zenon DEF Outside, Gone, vars
<1> QED
  BY <1>1, <1>2, <1>3 DEF Machine

LEMMA ClientInvariant == Spec => []ClientInv
<1>1. Init => ClientInv
  BY ClientInit DEF Init
<1>2. ClientInv /\ [Next]_vars => ClientInv'
  BY ClientStep, MachineReads DEF Next
<1> QED
  BY <1>1, <1>2, PTL DEF Spec

(* However the bytes of a client's message arrive, a read yields nothing,    *)
(* the message, or the message without its payload (message_serialize,       *)
(* server_receive_message, message_deserialize).                             *)
THEOREM MessagesArriveAsSent == Spec => []ReceivedAsSent
<1>1. ClientInv => ReceivedAsSent
  BY ReadIsSent DEF ReceivedAsSent, CanRead
<1> QED
  BY <1>1, ClientInvariant, PTL

-----------------------------------------------------------------------------
(* Finite sets of blocks. *)

LEMMA FiniteImage ==
  ASSUME NEW S, IsFiniteSet(S), NEW f
  PROVE  IsFiniteSet({f[x] : x \in S})
<1> DEFINE T == {f[x] : x \in S}
           g == [x \in S |-> f[x]]
<1>1. g \in Surjection(S, T)
  BY DEF Surjection
<1> HIDE DEF g, T
<1>2. IsFiniteSet(T)
  BY <1>1, FS_Surjection
<1> QED
  BY <1>2 DEF T

LEMMA FiniteUnionOver ==
  ASSUME NEW S, IsFiniteSet(S), NEW f, \A x \in S : IsFiniteSet(f[x])
  PROVE  IsFiniteSet(UNION {f[x] : x \in S})
<1> DEFINE T == {f[x] : x \in S}
<1>1. IsFiniteSet(T) /\ \A t \in T : IsFiniteSet(t)
  BY FiniteImage
<1> HIDE DEF T
<1>2. IsFiniteSet(UNION T)
  BY <1>1, FS_UNION
<1> QED
  BY <1>2 DEF T

LEMMA FiniteTriple ==
  ASSUME NEW a, NEW b, NEW c
  PROVE  IsFiniteSet({a, b, c})
<1>1. IsFiniteSet({a})
  BY FS_Singleton
<1>2. IsFiniteSet({a} \cup {b})
  BY <1>1, FS_AddElement
<1> DEFINE S == {a} \cup {b}
<1> HIDE DEF S
<1>3. IsFiniteSet(S \cup {c})
  BY <1>2, FS_AddElement DEF S
<1>4. {a, b, c} = S \cup {c}
  BY DEF S
<1> QED
  BY <1>3, <1>4

LEMMA FiniteRange ==
  ASSUME NEW S, NEW s \in Seq(S)
  PROVE  IsFiniteSet(Range(s))
<1>1. DOMAIN s = 1 .. Len(s) /\ Len(s) \in Nat
  OBVIOUS
<1>2. IsFiniteSet(1 .. Len(s))
  BY <1>1, FS_Interval
<1>3. IsFiniteSet({s[i] : i \in 1 .. Len(s)})
  BY <1>2, FiniteImage
<1> QED
  BY <1>1, <1>3 DEF Range

IsBlock(b) == b = Block(b.owner, b.what, b.size) /\ b.size \in Nat
AreBlocks(bs) == IsFiniteSet(bs) /\ \A b \in bs : IsBlock(b)

LEMMA ABlock ==
  ASSUME NEW o, NEW w, NEW s \in Nat
  PROVE  /\ IsBlock(Block(o, w, s)) /\ Block(o, w, s).owner = o
         /\ Block(o, w, s).what = w /\ Block(o, w, s).size = s
BY DEF IsBlock, Block

LEMMA TotalIsNat ==
  ASSUME NEW bs, AreBlocks(bs)
  PROVE  IsFiniteSet(BytesOf(bs)) /\ Total(bs) \in Nat
<1> DEFINE f == [b \in bs |-> {b} \X (1 .. b.size)]
<1>1. \A b \in bs : IsFiniteSet(f[b])
  <2> SUFFICES ASSUME NEW b \in bs PROVE IsFiniteSet({b} \X (1 .. b.size))
    OBVIOUS
  <2>1. b.size \in Nat
    BY DEF AreBlocks, IsBlock
  <2>2. IsFiniteSet(1 .. b.size)
    BY <2>1, FS_Interval
  <2>3. IsFiniteSet({b})
    BY FS_Singleton
  <2> QED
    BY <2>2, <2>3, FS_Product
<1>2. BytesOf(bs) = UNION {f[b] : b \in bs}
  BY DEF BytesOf
<1> HIDE DEF f
<1>3. IsFiniteSet(BytesOf(bs))
  BY <1>1, <1>2, FiniteUnionOver DEF AreBlocks
<1> QED
  BY <1>3, FS_CardinalityType DEF Total

LEMMA UnionOfBlocks ==
  ASSUME NEW a, NEW b, AreBlocks(a), AreBlocks(b)
  PROVE  AreBlocks(a \cup b)
BY FS_Union DEF AreBlocks

LEMMA SubsetOfBlocks ==
  ASSUME NEW a, NEW b, AreBlocks(a), b \subseteq a
  PROVE  AreBlocks(b)
BY FS_Subset DEF AreBlocks

LEMMA BlocksOver ==
  ASSUME NEW S, IsFiniteSet(S), NEW f, \A x \in S : AreBlocks(f[x])
  PROVE  AreBlocks(UNION {f[x] : x \in S})
<1>1. IsFiniteSet(UNION {f[x] : x \in S})
  BY FiniteUnionOver DEF AreBlocks
<1> QED
  BY <1>1 DEF AreBlocks

LEMMA NoBlocks == AreBlocks({})
BY FS_EmptySet DEF AreBlocks

LEMMA OneBlock ==
  ASSUME NEW o, NEW w, NEW s \in Nat
  PROVE  AreBlocks({Block(o, w, s)})
<1> DEFINE b == Block(o, w, s)
<1>1. IsBlock(b)
  BY ABlock
<1> HIDE DEF b
<1>2. IsFiniteSet({b})
  BY FS_Singleton
<1> QED
  BY <1>1, <1>2 DEF AreBlocks, b

(* How the lengths of lists of bytes add up. *)
LEMMA TotalOfUnion ==
  ASSUME NEW a, NEW b, AreBlocks(a), AreBlocks(b), a \cap b = {}
  PROVE  Total(a \cup b) = Total(a) + Total(b)
<1>1. BytesOf(a \cup b) = BytesOf(a) \cup BytesOf(b) /\ BytesOf(a) \cap BytesOf(b) = {}
  BY DEF BytesOf
<1>2. IsFiniteSet(BytesOf(a)) /\ IsFiniteSet(BytesOf(b)) /\ Total(a) \in Nat /\ Total(b) \in Nat
  BY TotalIsNat
<1>3. Cardinality(BytesOf(a) \cap BytesOf(b)) = 0
  BY <1>1, FS_EmptySet
<1>4. Cardinality(BytesOf(a) \cup BytesOf(b)) =
        Cardinality(BytesOf(a)) + Cardinality(BytesOf(b)) - Cardinality(BytesOf(a) \cap BytesOf(b))
  BY <1>2, FS_Union
<1>5. Total(a \cup b) = Cardinality(BytesOf(a) \cup BytesOf(b))
  BY <1>1 DEF Total
<1>6. Total(a) = Cardinality(BytesOf(a)) /\ Total(b) = Cardinality(BytesOf(b))
  BY DEF Total
<1> QED
  BY <1>2, <1>3, <1>4, <1>5, <1>6

LEMMA TotalOfDifference ==
  ASSUME NEW a, NEW b, AreBlocks(a), AreBlocks(b), \A c \in b : c \in a \/ c.size = 0
  PROVE  Total(a \ b) = Total(a) - Total(b)
<1>1. BytesOf(a \ b) = BytesOf(a) \ BytesOf(b)
  BY DEF BytesOf
<1>2. BytesOf(a) \cap BytesOf(b) = BytesOf(b)
  BY DEF BytesOf
<1>3. IsFiniteSet(BytesOf(a))
  BY TotalIsNat
<1>4. Cardinality(BytesOf(a) \ BytesOf(b)) =
        Cardinality(BytesOf(a)) - Cardinality(BytesOf(a) \cap BytesOf(b))
  BY <1>3, FS_Difference
<1> QED
  BY <1>1, <1>2, <1>4 DEF Total

LEMMA OnceAround ==
  ASSUME NEW l \in Nat \ {0}, NEW y \in Int
  PROVE  (y + l) % l = y % l
<1> DEFINE q == y \div l
           r == y % l
           q2 == (y + l) \div l
           r2 == (y + l) % l
<1>1. q \in Int /\ r \in 0 .. l - 1 /\ y = l * q + r
  OBVIOUS
<1>2. q2 \in Int /\ r2 \in 0 .. l - 1 /\ y + l = l * q2 + r2
  OBVIOUS
<1> HIDE DEF q, r, q2, r2
<1> DEFINE d == q2 - q - 1
<1>3. d \in Int /\ l * d = r - r2
  BY <1>1, <1>2
<1> HIDE DEF d
<1>4. d = 0
  <2>1. CASE d >= 1
    BY <2>1, <1>1, <1>2, <1>3
  <2>2. CASE d <= -1
    <3>1. l * d <= -l
      BY <2>2, <1>3
    <3> QED
    BY <3>1, <1>1, <1>2, <1>3
  <2> QED
    BY <2>1, <2>2, <1>3
<1>5. r = r2
  BY <1>3, <1>4, <1>1, <1>2
<1> QED
  BY <1>5 DEF r, r2

(* A counter that wraps around does so at the same numbers, whatever         *)
(* multiple of its width it is ahead.                                        *)
LEMMA WrapsAlike ==
  ASSUME NEW l \in Nat \ {0}, NEW x \in Int, NEW k \in Nat
  PROVE  (x + l * k) % l = x % l
<1> DEFINE T == {n \in Nat : (x + l * n) % l = x % l}
<1>1. 0 \in T
  OBVIOUS
<1>2. ASSUME NEW n \in Nat, n \in T
      PROVE  n + 1 \in T
  <2>1. x + l * (n + 1) = (x + l * n) + l
    OBVIOUS
  <2> DEFINE y == x + l * n
  <2>2. y \in Int
    OBVIOUS
  <2> HIDE DEF y
  <2>3. (y + l) % l = y % l
    BY <2>2, OnceAround
  <2> QED
    BY <1>2, <2>1, <2>3 DEF y
<1> HIDE DEF T
<1>3. Nat \subseteq T
  BY <1>1, <1>2, SetInduction
<1> QED
  BY <1>3 DEF T

LEMMA WrapsBelow ==
  ASSUME NEW l \in Nat \ {0}, NEW x \in Int, NEW y \in Int
  PROVE  ((x % l) + y) % l = (x + y) % l
<1> DEFINE q == x \div l
           r == x % l
<1>1. q \in Int /\ r \in 0 .. l - 1 /\ x = l * q + r
  OBVIOUS
<1> HIDE DEF q, r
<1>2. CASE q >= 0
  <2>1. q \in Nat /\ x + y = (r + y) + l * q /\ r + y \in Int
    BY <1>1, <1>2
  <2> QED
    BY <2>1, WrapsAlike DEF r
<1>3. CASE q < 0
  <2>1. -q \in Nat /\ r + y = (x + y) + l * (-q) /\ x + y \in Int
    BY <1>1, <1>3
  <2> QED
    BY <2>1, WrapsAlike DEF r
<1> QED
  BY <1>1, <1>2, <1>3

-----------------------------------------------------------------------------
(* What Reallocate and Account do to the blocks and to the counter. *)

LEMMA AccountMeans ==
  ASSUME NEW new, NEW old, Account(new, old)
  PROVE  /\ Reallocate(new, {}, old)
         /\ blocks' = {b \in blocks \cup new : \A c \in old : ~Same(b, c)}
<1>1. Reallocate(new, {}, old)
  BY DEF Account
<1>2. blocks' = {} \cup {b \in blocks \cup new : \A c \in {} \cup old : ~Same(b, c)}
  BY <1>1 DEF Reallocate
<1> QED
  BY <1>1, <1>2

LEMMA ReallocateTypes ==
  ASSUME AreBlocks(blocks), dynamic_memory_usage \in Nat,
         NEW new, NEW moved, NEW old, AreBlocks(new), AreBlocks(moved), AreBlocks(old),
         Reallocate(new, moved, old)
  PROVE  AreBlocks(blocks') /\ dynamic_memory_usage' \in 0 .. Limit - 1
<1>1. AreBlocks((blocks \cup new) \cup moved)
  BY UnionOfBlocks
<1>2. blocks' \subseteq (blocks \cup new) \cup moved
  BY DEF Reallocate
<1>3. AreBlocks(blocks')
  BY <1>1, <1>2, SubsetOfBlocks
<1>4. Total(new) \in Nat /\ Total(old) \in Nat
  BY TotalIsNat
<1>5. Cardinality(old) \in Nat
  BY FS_CardinalityType DEF AreBlocks
<1> DEFINE c == Cardinality(old)
           n == Total(new)
           o == Total(old)
           x == dynamic_memory_usage + n + Limit * c - o
<1>6. dynamic_memory_usage' = x % Limit
  BY DEF Reallocate
<1>7. Limit \in Nat \ {0}
  BY MemoryAssumption
<1> HIDE DEF c, n, o
<1>8. x \in Int
  BY <1>4, <1>5, <1>7 DEF c, n, o
<1> HIDE DEF x
<1>9. x % Limit \in 0 .. Limit - 1
  BY <1>7, <1>8
<1> QED
  BY <1>3, <1>6, <1>9

LEMMA AccountTypes ==
  ASSUME AreBlocks(blocks), dynamic_memory_usage \in Nat,
         NEW new, NEW old, AreBlocks(new), AreBlocks(old), Account(new, old)
  PROVE  AreBlocks(blocks') /\ dynamic_memory_usage' \in 0 .. Limit - 1
BY AccountMeans, ReallocateTypes, NoBlocks

IsList(b) == b.what = "children"

(* The counter stays exact if what is freed was counted, as it was counted,  *)
(* and only lists of children are moved.                                     *)
LEMMA ReallocateExact ==
  ASSUME AreBlocks(blocks), dynamic_memory_usage = Total(Counted(blocks)) % Limit,
         NEW new, NEW moved, NEW old, AreBlocks(new), AreBlocks(old),
         Reallocate(new, moved, old),
         \A b \in new : ~IsList(b), \A b \in moved : IsList(b),
         blocks \cap new = {},
         \A b \in Counted(blocks) \cup new, c \in old : Same(b, c) => b = c,
         \A c \in old : c \in Counted(blocks) \cup new \/ c.size = 0
  PROVE  dynamic_memory_usage' = Total(Counted(blocks')) % Limit
<1> DEFINE kept == Counted(blocks)
           all == kept \cup new
           k == Cardinality(old)
           t == Total(kept)
           n == Total(new)
           o == Total(old)
<1>0. AreBlocks(kept) /\ kept \cap new = {}
  BY SubsetOfBlocks DEF Counted
<1>1. Counted(blocks') = all \ old
  <2>1. \A b \in all, c \in old : Same(b, c) <=> b = c
    BY DEF Same
  <2>2. \A b \in all : ~IsList(b)
    BY DEF Counted, IsList
  <2>3. \A b \in all, c \in moved : ~Same(b, c)
    BY <2>2 DEF Same, IsList
  <2>4. blocks' = moved \cup {b \in blocks \cup new : \A c \in moved \cup old : ~Same(b, c)}
    BY DEF Reallocate
  <2>5. \A b : b \in all <=> b \in blocks \cup new /\ ~IsList(b)
    BY DEF Counted, IsList
  <2>6. \A b : b \in Counted(blocks') <=> b \in blocks' /\ ~IsList(b)
    BY DEF Counted, IsList
  <2> HIDE DEF all
  <2>7. \A b : b \in blocks' /\ ~IsList(b)
               <=> b \in blocks \cup new /\ ~IsList(b) /\ \A c \in moved \cup old : ~Same(b, c)
    BY <2>4
  <2>8. \A b \in all : (\A c \in moved \cup old : ~Same(b, c)) <=> b \notin old
    BY <2>1, <2>3
  <2> QED
    BY <2>5, <2>6, <2>7, <2>8
<1> HIDE DEF kept
<1>2. AreBlocks(all)
  BY <1>0, UnionOfBlocks
<1>3. Total(all) = t + n
  BY <1>0, TotalOfUnion
<1>4. Total(all \ old) = Total(all) - o
  <2> HIDE DEF all, o
  <2>1. \A c \in old : c \in all \/ c.size = 0
    BY DEF all, kept
  <2> QED
    BY <1>2, <2>1, TotalOfDifference DEF o
<1>5. t \in Nat /\ n \in Nat /\ o \in Nat
  BY <1>0, TotalIsNat
<1>6. k \in Nat
  BY FS_CardinalityType DEF AreBlocks
<1>7. Limit \in Nat \ {0}
  BY MemoryAssumption
<1>8. dynamic_memory_usage' = ((t % Limit) + n + Limit * k - o) % Limit
  BY DEF Reallocate, kept
<1> HIDE DEF all, k, t, n, o
<1> DEFINE y == n - o
           x == t + y
<1>9. y \in Int /\ x \in Int
  BY <1>5
<1>10. (t % Limit) + n + Limit * k - o = ((t % Limit) + y) + Limit * k
  <2> DEFINE r == t % Limit
             z == Limit * k
  <2>1. r \in Int /\ z \in Int
    BY <1>5, <1>6, <1>7
  <2> HIDE DEF r, z
  <2>2. r + n + z - o = (r + (n - o)) + z
    BY <1>5, <2>1
  <2> QED
    BY <2>2 DEF r, z
<1>11. (((t % Limit) + y) + Limit * k) % Limit = ((t % Limit) + y) % Limit
  <2> HIDE DEF y
  <2>1. (t % Limit) + y \in Int
    BY <1>5, <1>7, <1>9
  <2> QED
    BY <1>6, <1>7, <2>1, WrapsAlike
<1>12. ((t % Limit) + y) % Limit = x % Limit
  <2> HIDE DEF y
  <2>1. t \in Int
    BY <1>5
  <2> QED
    BY <1>7, <1>9, <2>1, WrapsBelow
<1>13. Total(Counted(blocks')) = x
  <2>1. Total(Counted(blocks')) = (t + n) - o
    BY <1>1, <1>3, <1>4
  <2> QED
    BY <1>5, <2>1
<1> HIDE DEF x, y
<1> QED
  BY <1>8, <1>10, <1>11, <1>12, <1>13

Stored(o, bs) == {b \in bs : b.owner = o}

(* Blocks that one owner gets. *)
LEMMA Added ==
  ASSUME NEW new, Account(new, {}), NEW o, \A b \in new : b.owner = o, Stored(o, blocks) = {}
  PROVE  /\ blocks' = blocks \cup new
         /\ Stored(o, blocks') = new
         /\ \A p : p # o => Stored(p, blocks') = Stored(p, blocks)
<1>1. blocks' = blocks \cup new
  BY AccountMeans
<1> QED
  BY <1>1 DEF Stored

(* Owners that lose all they have. *)
LEMMA Dropped ==
  ASSUME NEW old, Account({}, old), NEW X, \A c \in old : c.owner \in X,
         \A b \in blocks : b.owner \in X => \E c \in old : Same(b, c)
  PROVE  /\ blocks' = {b \in blocks : b.owner \notin X}
         /\ \A p : p \notin X => Stored(p, blocks') = Stored(p, blocks)
<1>1. blocks' = {b \in blocks : \A c \in old : ~Same(b, c)}
  BY AccountMeans
<1>2. \A b \in blocks : (\E c \in old : Same(b, c)) <=> b.owner \in X
  BY DEF Same
<1>3. blocks' = {b \in blocks : b.owner \notin X}
  BY <1>1, <1>2
<1> QED
  BY <1>3 DEF Stored

-----------------------------------------------------------------------------
(* What the constructors allocate and the destructors free are blocks. *)

LEMMA SizesAreNat ==
  /\ SizeOf.CPU \in Nat /\ SizeOf.PortBank \in Nat /\ SizeOf.Pointer \in Nat
  /\ SizeOf.Server \in Nat /\ SizeOf.Task \in Nat /\ SizeOf.Stack \in Nat
  /\ SizeOf.TaskTreeNode \in Nat /\ SizeOf.MessageQueue \in Nat /\ SizeOf.Message \in Nat
  /\ PORTS * SizeOf.Pointer \in Nat /\ PORTS \in Nat
  /\ SizeOf.Stack + OPSTACK_SIZE \in Nat /\ SizeOf.Stack + STACK_SIZE \in Nat
<1>1. /\ SizeOf.CPU \in Nat /\ SizeOf.PortBank \in Nat /\ SizeOf.Pointer \in Nat
      /\ SizeOf.Server \in Nat /\ SizeOf.Task \in Nat /\ SizeOf.Stack \in Nat
      /\ SizeOf.TaskTreeNode \in Nat /\ SizeOf.MessageQueue \in Nat /\ SizeOf.Message \in Nat
  BY MemoryAssumption DEF Structures
<1>2. PORTS \in Nat /\ OPSTACK_SIZE \in Nat /\ STACK_SIZE \in Nat
  BY MemoryAssumption
<1> QED
  BY <1>1, <1>2

LEMMA ThreeBlocks ==
  ASSUME NEW a, NEW b, NEW c, IsBlock(a), IsBlock(b), IsBlock(c)
  PROVE  AreBlocks({a, b, c})
BY FiniteTriple DEF AreBlocks

LEMMA ConstructedAreBlocks ==
  /\ \A t : AreBlocks(StackBlocks(t)) /\ AreBlocks(TaskBlocks(t))
  /\ \A m : \A n \in Nat : AreBlocks(MessageBlocks(m, n))
  /\ \A served \in BOOLEAN : AreBlocks(MachineBlocks(served))
<1>1. ASSUME NEW t
      PROVE  AreBlocks(StackBlocks(t))
  <2>1. AreBlocks({Block(t, "opstack", SizeOf.Stack + OPSTACK_SIZE)})
    BY SizesAreNat, OneBlock
  <2>2. AreBlocks({Block(t, "stack", SizeOf.Stack + STACK_SIZE)})
    BY SizesAreNat, OneBlock
  <2>3. AreBlocks({Block(t, "opstack", SizeOf.Stack + OPSTACK_SIZE)}
                    \cup {Block(t, "stack", SizeOf.Stack + STACK_SIZE)})
    BY <2>1, <2>2, UnionOfBlocks
  <2>4. StackBlocks(t) = {Block(t, "opstack", SizeOf.Stack + OPSTACK_SIZE)}
                    \cup {Block(t, "stack", SizeOf.Stack + STACK_SIZE)}
    BY DEF StackBlocks
  <2> QED
    BY <2>3, <2>4
<1>2. ASSUME NEW t
      PROVE  AreBlocks(TaskBlocks(t))
  <2> DEFINE a == Block(t, "Task", SizeOf.Task)
             b == Block(t, "node", SizeOf.TaskTreeNode)
             c == Block(t, "queue", SizeOf.MessageQueue)
  <2>1. IsBlock(a) /\ IsBlock(b) /\ IsBlock(c)
    BY SizesAreNat, ABlock
  <2>2. TaskBlocks(t) = {a, b, c} \cup StackBlocks(t)
    BY DEF TaskBlocks
  <2> HIDE DEF a, b, c
  <2>3. AreBlocks({a, b, c})
    BY <2>1, ThreeBlocks
  <2> QED
    BY <1>1, <2>2, <2>3, UnionOfBlocks
<1>3. ASSUME NEW m, NEW n \in Nat
      PROVE  AreBlocks(MessageBlocks(m, n))
  <2>1. AreBlocks({Block(m, "Message", SizeOf.Message)}) /\ AreBlocks({Block(m, "payload", n)})
    BY SizesAreNat, OneBlock
  <2>2. AreBlocks({Block(m, "Message", SizeOf.Message)} \cup {Block(m, "payload", n)})
    BY <2>1, UnionOfBlocks
  <2>3. MessageBlocks(m, n) = {Block(m, "Message", SizeOf.Message)} \cup {Block(m, "payload", n)}
    BY DEF MessageBlocks
  <2> QED
    BY <2>2, <2>3
<1>4. ASSUME NEW served \in BOOLEAN
      PROVE  AreBlocks(MachineBlocks(served))
  <2> DEFINE a == Block(Cpu, "CPU", SizeOf.CPU)
             b == Block(Cpu, "bank", SizeOf.PortBank)
             c == Block(Cpu, "ports", PORTS * SizeOf.Pointer)
             d == IF served THEN {Block(Cpu, "server", SizeOf.Server)} ELSE {}
  <2>1. IsBlock(a) /\ IsBlock(b) /\ IsBlock(c)
    BY SizesAreNat, ABlock
  <2>2. AreBlocks(d)
    BY SizesAreNat, OneBlock, NoBlocks
  <2>3. MachineBlocks(served) = {a, b, c} \cup d
    BY DEF MachineBlocks
  <2> HIDE DEF a, b, c, d
  <2>4. AreBlocks({a, b, c})
    BY <2>1, ThreeBlocks
  <2> QED
    BY <2>2, <2>3, <2>4, UnionOfBlocks
<1> QED
  BY <1>1, <1>2, <1>3, <1>4

ControlTypes ==
  /\ phase \in {"off", "running", "undefined", "exited"}
  /\ server \in BOOLEAN
  /\ tasks_number \in TaskId /\ live \subseteq TaskId /\ parent \in [TaskId -> TaskId]
  /\ childCapacity \in [TaskId -> Nat]

DataTypes ==
  /\ inbox \in [TaskId -> Seq(Message)]
  /\ \A t \in TaskId : Len(inbox[t]) <= TASK_MESSAGE_QUEUE_SIZE
  /\ message \in [Message -> [payload_size : Nat, held : Nat]]
  /\ refused \subseteq Message
  /\ miscounted \in BOOLEAN
  /\ AreBlocks(blocks)
  /\ dynamic_memory_usage \in 0 .. Limit - 1

TypeInv == ControlTypes /\ DataTypes

LEMMA FreedAreBlocks ==
  ASSUME TypeInv
  PROVE  /\ \A m \in Message : AreBlocks(MessageFrees(m))
         /\ \A t \in TaskId : AreBlocks(TaskFrees(t)) /\ ChildCount(t) \in Nat
         /\ \A S \in SUBSET TaskId : AreBlocks(TreeFrees(S))
         /\ AreBlocks(MachineFrees)
<1>1. ASSUME NEW m \in Message
      PROVE  AreBlocks(MessageFrees(m))
  <2>1. message[m].payload_size \in Nat
    BY DEF TypeInv, DataTypes
  <2> QED
    BY <2>1, ConstructedAreBlocks DEF MessageFrees
<1>2. ASSUME NEW t \in TaskId
      PROVE  AreBlocks(InboxFrees(t))
  <2> DEFINE S == Range(inbox[t])
             f == [m \in S |-> MessageFrees(m)]
  <2>0. inbox[t] \in Seq(Message)
    BY DEF TypeInv, DataTypes
  <2>1. S \subseteq Message
    BY <2>0, ElementOfSeq DEF Range
  <2>2. IsFiniteSet(S)
    BY <2>0, FiniteRange
  <2>3. \A m \in S : AreBlocks(f[m])
    BY <1>1, <2>1
  <2>4. InboxFrees(t) = {Block(t, "queue", SizeOf.MessageQueue)} \cup UNION {f[m] : m \in S}
    BY DEF InboxFrees
  <2> HIDE DEF S, f
  <2>5. AreBlocks(UNION {f[m] : m \in S})
    BY <2>2, <2>3, BlocksOver
  <2>6. AreBlocks({Block(t, "queue", SizeOf.MessageQueue)})
    BY SizesAreNat, OneBlock
  <2> QED
    BY <2>4, <2>5, <2>6, UnionOfBlocks
<1>3. ASSUME NEW t \in TaskId
      PROVE  AreBlocks(TaskFrees(t))
  <2>1. AreBlocks({Block(t, "Task", SizeOf.Task)})
    BY SizesAreNat, OneBlock
  <2>2. AreBlocks({Block(t, "Task", SizeOf.Task)} \cup InboxFrees(t)) /\ AreBlocks(StackBlocks(t))
    BY <1>2, <2>1, UnionOfBlocks, ConstructedAreBlocks
  <2> QED
    BY <2>2, UnionOfBlocks DEF TaskFrees
<1>4. IsFiniteSet(TaskId)
  <2>1. MAX_TASKS \in Int /\ 0 \in Int
    BY MemoryAssumption
  <2> QED
    BY <2>1, FS_Interval DEF TaskId
<1>5. ASSUME NEW t
      PROVE  ChildCount(t) \in Nat
  <2> DEFINE C == {c \in live : c # Root /\ parent[c] = t}
  <2>1. IsFiniteSet(live)
    BY <1>4, FS_Subset DEF TypeInv, ControlTypes
  <2>2. C \in SUBSET live
    OBVIOUS
  <2> HIDE DEF C
  <2>3. Cardinality(C) \in Nat
    BY <2>1, <2>2, FS_Subset, FS_CardinalityType
  <2> QED
    BY <2>3 DEF C, ChildCount
<1>6. ASSUME NEW S \in SUBSET TaskId
      PROVE  AreBlocks(TreeFrees(S))
  <2> DEFINE children(t) == Block(t, "children", SizeOf.TaskTreeNode * ChildCount(t))
             node(t) == Block(t, "node", SizeOf.TaskTreeNode)
             u == UNION {TaskFrees(t) : t \in S}
             v == {children(t) : t \in S}
             w == {node(t) : t \in S}
  <2>1. IsFiniteSet(S)
    BY <1>4, FS_Subset
  <2>2. TreeFrees(S) = (u \cup v) \cup w
    BY Zenon DEF TreeFrees
  <2>3. AreBlocks(u)
    <3> DEFINE f == [t \in S |-> TaskFrees(t)]
    <3>1. u = UNION {f[t] : t \in S} /\ \A t \in S : AreBlocks(f[t])
      BY <1>3
    <3> HIDE DEF f
    <3> QED
      BY <2>1, <3>1, BlocksOver
  <2>4. AreBlocks(v)
    <3> DEFINE f == [t \in S |-> {children(t)}]
    <3>1. \A t \in S : SizeOf.TaskTreeNode * ChildCount(t) \in Nat
      BY <1>5, SizesAreNat
    <3>2. \A t \in S : AreBlocks({children(t)})
      BY <3>1, OneBlock
    <3> HIDE DEF children
    <3>3. v = UNION {f[t] : t \in S} /\ \A t \in S : AreBlocks(f[t])
      BY <3>2
    <3> HIDE DEF f
    <3> QED
      BY <2>1, <3>3, BlocksOver
  <2>5. AreBlocks(w)
    <3> DEFINE f == [t \in S |-> {node(t)}]
    <3>1. \A t \in S : AreBlocks({node(t)})
      BY SizesAreNat, OneBlock
    <3> HIDE DEF node
    <3>2. w = UNION {f[t] : t \in S} /\ \A t \in S : AreBlocks(f[t])
      BY <3>1
    <3> HIDE DEF f
    <3> QED
      BY <2>1, <3>2, BlocksOver
  <2> HIDE DEF u, v, w
  <2>6. AreBlocks(u \cup v)
    BY <2>3, <2>4, UnionOfBlocks
  <2> QED
    BY <2>2, <2>5, <2>6, UnionOfBlocks
<1>7. AreBlocks(MachineFrees)
  <2> DEFINE a == Block(Cpu, "ports", PORTS)
             b == Block(Cpu, "bank", SizeOf.PortBank)
             c == Block(Cpu, "CPU", SizeOf.CPU)
  <2>1. IsBlock(a) /\ IsBlock(b) /\ IsBlock(c)
    BY SizesAreNat, ABlock
  <2>2. MachineFrees = {a, b, c} \cup TreeFrees(live)
    BY DEF MachineFrees
  <2>3. AreBlocks(TreeFrees(live))
    BY <1>6 DEF TypeInv, ControlTypes
  <2> HIDE DEF a, b, c
  <2>4. AreBlocks({a, b, c})
    BY <2>1, ThreeBlocks
  <2> QED
    BY <2>2, <2>3, <2>4, UnionOfBlocks
<1> QED
  BY <1>1, <1>3, <1>5, <1>6, <1>7

LEMMA ListsAreBlocks ==
  ASSUME TypeInv, NEW p \in TaskId
  PROVE  /\ childCapacity[p] \in Nat /\ CapacityForOneMore(p) \in Nat
         /\ AreBlocks(ListBlocks(p, CapacityForOneMore(p)))
<1>1. childCapacity[p] \in Nat
  BY DEF TypeInv, ControlTypes
<1>2. CapacityForOneMore(p) \in Nat
  BY <1>1 DEF CapacityForOneMore
<1> DEFINE n == CapacityForOneMore(p)
<1>3. n * SizeOf.Pointer \in Nat
  BY <1>2, SizesAreNat
<1> HIDE DEF n
<1>4. AreBlocks({Block(p, "children", n * SizeOf.Pointer)})
  BY <1>3, OneBlock
<1>5. AreBlocks(ListBlocks(p, n))
  BY <1>4, NoBlocks DEF ListBlocks
<1> QED
  BY <1>1, <1>2, <1>5 DEF n

-----------------------------------------------------------------------------
(* While the machine waits for a client it does nothing else.                *)

Waits == reading # NULL => phase = "running" /\ FreeAddresses # {}

LEMMA WaitsInvariant == Spec => []Waits
<1>1. Init => Waits
  BY DEF Init, ServerInit, Waits
<1>2. ASSUME Waits, [Next]_vars
      PROVE  Waits'
  <2>1. CASE Start
    BY <1>2, <2>1 DEF Start, Waits, serverVars
  <2>2. CASE AsyncCall \/ AsyncReturn \/ Halt
    <3>1. reading' = NULL
      BY <2>2, Zenon DEF AsyncCall, AsyncReturn, Halt, Stop, Ends, Working, serverVars
    <3> QED
      BY <3>1 DEF Waits
  <2>3. CASE Send \/ ProcessMessage
    <3>1. reading' = NULL
      BY <2>3, Zenon DEF Send, ProcessMessage, Stop, Ends, Working, serverVars
    <3> QED
      BY <3>1 DEF Waits
  <2>4. CASE Receive
    <3>1. reading' = NULL
      BY <2>4, Zenon DEF Receive, Read, Stop, Ends
    <3> QED
      BY <3>1 DEF Waits
  <2>5. CASE Poll
    <3>1. CASE server
      BY <2>5, <3>1 DEF Poll, Working, machineVars, memory, Waits, FreeAddresses
    <3>2. CASE ~server
      BY <2>5, <3>2 DEF Poll, Stop, Ends, Waits
    <3> QED
      BY <3>1, <3>2
  <2>6. CASE Outside
    BY <1>2, <2>6 DEF Outside, Arrive, Close, machineVars, memory, Waits, FreeAddresses
  <2>7. CASE Gone \/ UNCHANGED vars
    BY <1>2, <2>7 DEF Gone, vars, serverVars, machineVars, memory, Waits, FreeAddresses
  <2> QED
    BY <1>2, <2>1, <2>2, <2>3, <2>4, <2>5, <2>6, <2>7 DEF Next, Machine
<1> QED
  BY <1>1, <1>2, PTL DEF Spec

LEMMA NewAddressIsFree ==
  ASSUME FreeAddresses # {}
  PROVE  NewAddress \in Message /\ \A b \in blocks : b.owner # NewAddress
BY DEF FreeAddresses, NewAddress

(* A message from outside has its payload or none. *)
LEMMA ReceivedFits ==
  ASSUME ClientInv, CanRead, Received # NULL
  PROVE  /\ Received.payload_size \in Nat
         /\ Len(Received.payload) \in {0, Received.payload_size}
<1>1. reading # NULL /\ Whole(reading)
  BY DEF CanRead, ClientInv
<1>2. /\ reading.payload_size \in Nat /\ Len(reading.payload) = reading.payload_size
      /\ DOMAIN reading = Fields
  BY <1>1, WordsAreMessageFields, WireAssumption DEF Whole, MessageStruct, Word
<1>3. Received = [reading EXCEPT !.payload = <<>>] \/ Received = reading
  BY <1>1, ReadIsSent
<1> DEFINE cut == [reading EXCEPT !.payload = <<>>]
<1>4. cut.payload_size = reading.payload_size /\ cut.payload = <<>>
  BY <1>2, FieldNames
<1> HIDE DEF cut
<1>5. CASE Received = cut
  BY <1>2, <1>4, <1>5
<1>6. CASE Received = reading
  BY <1>2, <1>6
<1> QED
  BY <1>3, <1>5, <1>6 DEF cut

-----------------------------------------------------------------------------
(* Types. *)

(* The blocks of a message as it is received. *)
ReceivedBlocks(m, held) ==
  {Block(m, "Message", SizeOf.Message)} \cup IF held > 0 THEN {Block(m, "payload", held)} ELSE {}

LEMMA ReceivedAreBlocks ==
  ASSUME NEW m, NEW held \in Nat
  PROVE  AreBlocks(ReceivedBlocks(m, held))
<1>1. AreBlocks({Block(m, "Message", SizeOf.Message)})
  BY SizesAreNat, OneBlock
<1>2. AreBlocks(IF held > 0 THEN {Block(m, "payload", held)} ELSE {})
  BY NoBlocks, OneBlock
<1> QED
  BY <1>1, <1>2, UnionOfBlocks DEF ReceivedBlocks

LEMMA DeliverTypes ==
  ASSUME DataTypes, live \subseteq TaskId, NEW m \in Message, NEW new, AreBlocks(new),
         NEW msg \in [payload_size : Nat, held : Nat], NEW d, Deliver(m, new, msg, d)
  PROVE  DataTypes'
<1>1. message' \in [Message -> [payload_size : Nat, held : Nat]]
  BY DEF Deliver, DataTypes, NoPayload
<1>2. dynamic_memory_usage \in Nat /\ AreBlocks(blocks)
  BY MemoryAssumption DEF DataTypes
<1>3. ASSUME NEW old, AreBlocks(old), Account(new, old)
      PROVE  AreBlocks(blocks') /\ dynamic_memory_usage' \in 0 .. Limit - 1
  BY <1>2, <1>3, AccountTypes
<1>4. CASE d \in live /\ HasRoom(d) /\ inbox' = [inbox EXCEPT ![d] = Append(@, m)]
             /\ Account(new, {}) /\ UNCHANGED <<refused, miscounted>>
  <2>1. d \in TaskId /\ inbox[d] \in Seq(Message)
    BY <1>4 DEF DataTypes
  <2>2. Append(inbox[d], m) \in Seq(Message) /\ Len(Append(inbox[d], m)) = Len(inbox[d]) + 1
    BY <2>1
  <2>3. Len(inbox[d]) + 1 <= TASK_MESSAGE_QUEUE_SIZE
    BY <1>4, <2>1, MemoryAssumption DEF HasRoom
  <2>4. inbox' \in [TaskId -> Seq(Message)] /\ \A t \in TaskId : Len(inbox'[t]) <= TASK_MESSAGE_QUEUE_SIZE
    BY <1>4, <2>1, <2>2, <2>3 DEF DataTypes
  <2> QED
    BY <1>1, <1>3, <1>4, <2>4, NoBlocks DEF DataTypes
<1>5. CASE refused' = refused \cup {m} /\ Account(new, {}) /\ UNCHANGED <<inbox, miscounted>>
  BY <1>1, <1>3, <1>5, NoBlocks DEF DataTypes
<1>6. CASE /\ Account(new, MessageBlocks(m, msg.payload_size))
           /\ miscounted' = (miscounted \/ IsTruncated(msg))
           /\ UNCHANGED <<inbox, refused>>
  <2>1. AreBlocks(MessageBlocks(m, msg.payload_size))
    BY ConstructedAreBlocks
  <2>2. miscounted' \in BOOLEAN
    BY <1>6 DEF DataTypes, IsTruncated
  <2> QED
    BY <1>1, <1>3, <1>6, <2>1, <2>2 DEF DataTypes
<1> QED
  BY <1>4, <1>5, <1>6 DEF Deliver

LEMMA EndsTypes ==
  ASSUME Ends, AreBlocks(blocks'), dynamic_memory_usage' \in 0 .. Limit - 1, refused' \subseteq Message,
         phase' \in {"undefined", "exited"}
  PROVE  TypeInv'
<1>1. 0 \in TaskId /\ Root \in TaskId /\ 0 <= TASK_MESSAGE_QUEUE_SIZE
  BY MemoryAssumption DEF TaskId, Root
<1>2. ControlTypes'
  BY <1>1 DEF Ends, ControlTypes
<1>3. message' \in [Message -> [payload_size : Nat, held : Nat]] /\ inbox' \in [TaskId -> Seq(Message)]
  BY DEF Ends, NoPayload
<1>4. \A t \in TaskId : Len(inbox'[t]) = 0
  BY DEF Ends
<1>5. DataTypes'
  BY <1>1, <1>3, <1>4 DEF Ends, DataTypes
<1> QED
  BY <1>2, <1>5 DEF TypeInv

LEMMA StopTypes == Stop => TypeInv'
<1>1. 0 \in 0 .. Limit - 1
  BY MemoryAssumption
<1> QED
  BY <1>1, EndsTypes, NoBlocks DEF Stop

LEMMA DataAccounted ==
  ASSUME DataTypes, NEW new, NEW old, AreBlocks(new), AreBlocks(old), Account(new, old)
  PROVE  AreBlocks(blocks') /\ dynamic_memory_usage' \in 0 .. Limit - 1
<1>1. AreBlocks(blocks) /\ dynamic_memory_usage \in Nat
  BY MemoryAssumption DEF DataTypes
<1> QED
  BY <1>1, AccountTypes

LEMMA DataReallocated ==
  ASSUME DataTypes, NEW new, NEW moved, AreBlocks(new), AreBlocks(moved), Reallocate(new, moved, {})
  PROVE  AreBlocks(blocks') /\ dynamic_memory_usage' \in 0 .. Limit - 1
<1>1. AreBlocks(blocks) /\ dynamic_memory_usage \in Nat
  BY MemoryAssumption DEF DataTypes
<1> QED
  BY <1>1, ReallocateTypes, NoBlocks

LEMMA TypeStep ==
  ASSUME TypeInv, ClientInv, Waits, [Next]_vars
  PROVE  TypeInv'
<1>0. /\ live \subseteq TaskId /\ 0 \in TaskId /\ Root = 0 /\ tasks_number \in Nat /\ MAX_TASKS \in Nat
      /\ ControlTypes /\ DataTypes
  <2>1. live \subseteq TaskId /\ tasks_number \in TaskId /\ ControlTypes /\ DataTypes
    BY DEF TypeInv, ControlTypes
  <2> QED
    BY <2>1, MemoryAssumption DEF TaskId, Root
<1>1. CASE Start
  <2>1. AreBlocks(MachineBlocks(server')) /\ AreBlocks(TaskBlocks(Root))
    BY <1>1, ConstructedAreBlocks DEF Start
  <2>2. AreBlocks(MachineBlocks(server') \cup TaskBlocks(Root))
    BY <2>1, UnionOfBlocks
  <2>3. AreBlocks(blocks') /\ dynamic_memory_usage' \in 0 .. Limit - 1
    BY <1>0, <1>1, <2>2, NoBlocks, DataAccounted DEF Start
  <2>4. ControlTypes'
    BY <1>0, <1>1 DEF Start, ControlTypes
  <2>5. DataTypes'
    BY <1>0, <1>1, <2>3 DEF Start, DataTypes
  <2> QED
    BY <2>4, <2>5 DEF TypeInv
<1>2. CASE AsyncCall
  <2>1. CASE Stop
    BY <2>1, StopTypes
  <2>2. CASE ~Stop
    <3> DEFINE t == tasks_number + 1
    <3>1. PICK p \in live :
            /\ tasks_number' = t
            /\ live' = live \cup {t}
            /\ parent' = [parent EXCEPT ![t] = p]
            /\ childCapacity' = [childCapacity EXCEPT ![p] = CapacityForOneMore(p)]
            /\ Reallocate(TaskBlocks(t), ListBlocks(p, CapacityForOneMore(p)), {})
            /\ UNCHANGED <<serverVars, phase, server, inbox, message, refused, miscounted>>
      BY <1>2, <2>2, Zenon DEF AsyncCall
    <3>2. t \in TaskId
      BY <1>0, <1>2 DEF AsyncCall, TaskId
    <3> HIDE DEF t
    <3>3. /\ CapacityForOneMore(p) \in Nat
          /\ AreBlocks(ListBlocks(p, CapacityForOneMore(p))) /\ AreBlocks(TaskBlocks(t))
      BY <1>0, ListsAreBlocks, ConstructedAreBlocks
    <3>6. AreBlocks(blocks') /\ dynamic_memory_usage' \in 0 .. Limit - 1
      BY <1>0, <3>1, <3>3, DataReallocated
    <3>4. ControlTypes'
      <4>1. childCapacity' \in [TaskId -> Nat]
        BY <1>0, <3>1, <3>3 DEF ControlTypes
      <4> QED
        BY <1>0, <3>1, <3>2, <4>1 DEF ControlTypes
    <3>5. DataTypes'
      BY <1>0, <3>1, <3>6 DEF DataTypes
    <3> QED
      BY <3>4, <3>5 DEF TypeInv
  <2> QED
    BY <2>1, <2>2
<1>3. CASE AsyncReturn
  <2>1. PICK t \in live \ {Root} :
          LET gone == Subtree(t)
              mail == UNION {Range(inbox[g]) : g \in gone}
          IN
          /\ live' = live \ gone
          /\ inbox' = [g \in TaskId |-> IF g \in gone THEN <<>> ELSE inbox[g]]
          /\ Account({}, TreeFrees(gone))
          /\ parent' = [g \in TaskId |-> IF g \in gone THEN Root ELSE parent[g]]
          /\ childCapacity' = [g \in TaskId |-> IF g \in gone THEN 0 ELSE childCapacity[g]]
          /\ message' = [m \in Message |-> IF m \in mail THEN NoPayload ELSE message[m]]
          /\ miscounted' = (miscounted \/ (\E g \in gone : ChildCount(g) > 0)
                                      \/ \E m \in mail : IsTruncated(message[m]))
          /\ UNCHANGED <<serverVars, phase, server, tasks_number, refused>>
    BY <1>3, Zenon DEF AsyncReturn
  <2> DEFINE gone == Subtree(t)
             mail == UNION {Range(inbox[g]) : g \in gone}
  <2>2. gone \in SUBSET TaskId
    BY <1>0 DEF Subtree
  <2> HIDE DEF gone, mail
  <2>3. AreBlocks(TreeFrees(gone))
    BY <2>2, FreedAreBlocks
  <2>4. AreBlocks(blocks') /\ dynamic_memory_usage' \in 0 .. Limit - 1
    BY <1>0, <2>1, <2>3, NoBlocks, DataAccounted DEF gone
  <2>5. inbox' \in [TaskId -> Seq(Message)] /\ \A g \in TaskId : Len(inbox'[g]) <= TASK_MESSAGE_QUEUE_SIZE
    <3>1. inbox' = [g \in TaskId |-> IF g \in gone THEN <<>> ELSE inbox[g]]
      BY <2>1 DEF gone
    <3>2. 0 <= TASK_MESSAGE_QUEUE_SIZE
      BY MemoryAssumption
    <3> QED
      BY <1>0, <3>1, <3>2 DEF DataTypes
  <2>6. message' \in [Message -> [payload_size : Nat, held : Nat]]
    <3>1. message' = [m \in Message |-> IF m \in mail THEN NoPayload ELSE message[m]]
      BY <2>1 DEF mail, gone
    <3> QED
      BY <1>0, <3>1 DEF DataTypes, NoPayload
  <2>7. miscounted' \in BOOLEAN
    <3>1. miscounted' = (miscounted \/ (\E g \in gone : ChildCount(g) > 0)
                                      \/ \E m \in mail : IsTruncated(message[m]))
      BY <2>1, Zenon DEF mail, gone
    <3> QED
      BY <1>0, <3>1, Zenon DEF DataTypes
  <2>8. /\ parent' \in [TaskId -> TaskId] /\ live' \subseteq TaskId
        /\ childCapacity' \in [TaskId -> Nat]
    BY <1>0, <2>1 DEF ControlTypes
  <2>9. phase' = phase /\ server' = server /\ tasks_number' = tasks_number /\ refused' = refused
    BY <2>1
  <2>10. ControlTypes'
    BY <1>0, <2>8, <2>9 DEF ControlTypes
  <2>11. DataTypes'
    BY <1>0, <2>4, <2>5, <2>6, <2>7, <2>9 DEF DataTypes
  <2> QED
    BY <2>10, <2>11 DEF TypeInv
<1>4. CASE Halt
  <2>1. AreBlocks(blocks') /\ dynamic_memory_usage' \in 0 .. Limit - 1
    BY <1>0, <1>4, FreedAreBlocks, NoBlocks, DataAccounted DEF Halt
  <2>2. refused' \subseteq Message
    BY <1>0, <1>4 DEF Halt, DataTypes
  <2> QED
    BY <1>4, <2>1, <2>2, EndsTypes DEF Halt
<1>5. CASE Send
  <2>1. CASE Stop
    BY <2>1, StopTypes
  <2>2. CASE ~Stop
    <3>1. PICK d \in TaskId, n \in PayloadSizes :
            LET m == NewAddress IN
            /\ FreeAddresses # {}
            /\ Deliver(m, MessageBlocks(m, n), [payload_size |-> n, held |-> n], d)
            /\ UNCHANGED <<serverVars, phase, server, taskVars>>
      BY <1>5, <2>2, Zenon DEF Send
    <3>2. n \in Nat
      BY MemoryAssumption, WireAssumption DEF Word
    <3>3. NewAddress \in Message
      BY <3>1, NewAddressIsFree
    <3>4. DataTypes'
      BY <1>0, <3>1, <3>2, <3>3, DeliverTypes, ConstructedAreBlocks
    <3>5. ControlTypes'
      BY <1>0, <3>1 DEF ControlTypes, taskVars
    <3> QED
      BY <3>4, <3>5 DEF TypeInv
  <2> QED
    BY <2>1, <2>2
<1>6. CASE Poll
  <2>1. CASE Stop
    BY <2>1, StopTypes
  <2>2. CASE UNCHANGED machineVars
    BY <1>0, <2>2 DEF machineVars, taskVars, memory, TypeInv, ControlTypes, DataTypes
  <2> QED
    BY <1>6, <2>1, <2>2 DEF Poll
<1>7. CASE Receive
  <2>1. CASE Stop
    BY <2>1, StopTypes
  <2>2. CASE UNCHANGED machineVars
    BY <1>0, <2>2 DEF machineVars, taskVars, memory, TypeInv, ControlTypes, DataTypes
  <2>3. CASE ~Stop /\ ~UNCHANGED machineVars
    <3> DEFINE r == Received
               m == NewAddress
               held == Len(r.payload)
               new == {Block(m, "Message", SizeOf.Message)}
                        \cup IF held > 0 THEN {Block(m, "payload", held)} ELSE {}
               msg == [payload_size |-> r.payload_size, held |-> held]
    <3>1. /\ r # NULL /\ CanRead
          /\ Deliver(m, new, msg, r.task_dst)
          /\ UNCHANGED <<phase, server, taskVars>>
      BY <1>7, <2>3, Zenon DEF Receive
    <3>2. r.payload_size \in Nat /\ held \in Nat
      BY <3>1, ReceivedFits
    <3>3. m \in Message
      BY <3>1, NewAddressIsFree DEF Waits, CanRead
    <3>4. new = ReceivedBlocks(m, held) /\ msg \in [payload_size : Nat, held : Nat]
      BY <3>2 DEF ReceivedBlocks
    <3> HIDE DEF r, m, held, new, msg
    <3>5. AreBlocks(new)
      BY <3>2, <3>4, ReceivedAreBlocks
    <3>6. DataTypes'
      BY <1>0, <3>1, <3>3, <3>4, <3>5, DeliverTypes
    <3>7. ControlTypes'
      BY <1>0, <3>1 DEF ControlTypes, taskVars
    <3> QED
      BY <3>6, <3>7 DEF TypeInv
  <2> QED
    BY <2>1, <2>2, <2>3
<1>8. CASE ProcessMessage
  <2>1. PICK t \in live :
          /\ inbox[t] # <<>>
          /\ LET m == Head(inbox[t]) IN
               /\ Account({}, MessageFrees(m))
               /\ message' = [message EXCEPT ![m] = NoPayload]
               /\ miscounted' = (miscounted \/ IsTruncated(message[m]))
          /\ inbox' = [inbox EXCEPT ![t] = Tail(@)]
          /\ UNCHANGED <<serverVars, phase, server, taskVars, refused>>
    BY <1>8, Zenon DEF ProcessMessage
  <2>2. t \in TaskId /\ inbox[t] \in Seq(Message)
    BY <1>0 DEF DataTypes
  <2>3. Head(inbox[t]) \in Message /\ Tail(inbox[t]) \in Seq(Message) /\ Len(Tail(inbox[t])) <= Len(inbox[t])
    BY <2>1, <2>2, HeadTailProperties
  <2>4. AreBlocks(blocks') /\ dynamic_memory_usage' \in 0 .. Limit - 1
    BY <1>0, <2>1, <2>3, FreedAreBlocks, NoBlocks, DataAccounted
  <2>5. inbox' \in [TaskId -> Seq(Message)] /\ \A g \in TaskId : Len(inbox'[g]) <= TASK_MESSAGE_QUEUE_SIZE
    <3>1. \A g \in TaskId : inbox'[g] = IF g = t THEN Tail(inbox[t]) ELSE inbox[g]
      BY <1>0, <2>1, <2>2 DEF DataTypes
    <3>2. inbox' \in [TaskId -> Seq(Message)]
      BY <1>0, <2>1, <2>2, <2>3 DEF DataTypes
    <3>3. \A g \in TaskId : Len(inbox[g]) \in Nat /\ Len(inbox[g]) <= TASK_MESSAGE_QUEUE_SIZE
      BY <1>0 DEF DataTypes
    <3>4. Len(Tail(inbox[t])) <= TASK_MESSAGE_QUEUE_SIZE
      <4>1. Len(Tail(inbox[t])) \in Nat /\ TASK_MESSAGE_QUEUE_SIZE \in Nat
        BY <2>3, MemoryAssumption
      <4> QED
        BY <2>2, <2>3, <3>3, <4>1
    <3> QED
      BY <3>1, <3>2, <3>3, <3>4
  <2>6. message' \in [Message -> [payload_size : Nat, held : Nat]]
    BY <1>0, <2>1 DEF DataTypes, NoPayload
  <2>7. miscounted' \in BOOLEAN
    BY <1>0, <2>1, Zenon DEF DataTypes, IsTruncated
  <2>8. DataTypes'
    BY <1>0, <2>1, <2>4, <2>5, <2>6, <2>7 DEF DataTypes
  <2>9. ControlTypes'
    BY <1>0, <2>1 DEF ControlTypes, taskVars
  <2> QED
    BY <2>8, <2>9 DEF TypeInv
<1>9. CASE Outside
  BY <1>0, <1>9 DEF Outside, machineVars, taskVars, memory, TypeInv, ControlTypes, DataTypes
<1>10. CASE Gone \/ UNCHANGED vars
  BY <1>0, <1>10 DEF Gone, vars, machineVars, taskVars, memory, TypeInv, ControlTypes, DataTypes
<1> QED
  BY <1>1, <1>2, <1>3, <1>4, <1>5, <1>6, <1>7, <1>8, <1>9, <1>10 DEF Next, Machine

LEMMA TypeInitially == Init => TypeInv
<1> SUFFICES ASSUME Init PROVE TypeInv
  OBVIOUS
<1>1. 0 \in TaskId /\ Root \in TaskId /\ 0 <= TASK_MESSAGE_QUEUE_SIZE /\ 0 \in 0 .. Limit - 1
  BY MemoryAssumption DEF TaskId, Root
<1>2. ControlTypes
  BY <1>1 DEF Init, ControlTypes
<1>3. DataTypes
  BY <1>1, NoBlocks DEF Init, DataTypes, NoPayload
<1> QED
  BY <1>2, <1>3 DEF TypeInv

LEMMA TypeInvariant == Spec => []TypeInv
<1>1. TypeInv /\ ClientInv /\ Waits /\ [Next]_vars => TypeInv'
  BY TypeStep
<1> QED
  BY <1>1, TypeInitially, ClientInvariant, WaitsInvariant, PTL DEF Spec

(* The counter stays within its width, inboxes within their size, and what   *)
(* they hold are messages (vmmalloc, vmfree, push_message).                  *)
THEOREM MemoryTypeCorrect == Spec => []TypeOK
<1>1. TypeInv /\ ClientInv => TypeOK
  <2> SUFFICES ASSUME TypeInv, ClientInv PROVE TypeOK
    OBVIOUS
  <2>1. reading = NULL \/ reading.payload_size \in 0 .. B * B - 1
    BY DEF ClientInv, Whole, MessageStruct, Word
  <2>2. \A t \in TaskId : Range(inbox[t]) \subseteq Message
    <3> SUFFICES ASSUME NEW t \in TaskId PROVE Range(inbox[t]) \subseteq Message
      OBVIOUS
    <3>1. inbox[t] \in Seq(Message)
      BY DEF TypeInv, DataTypes
    <3> QED
      BY <3>1, ElementOfSeq DEF Range
  <2> QED
    BY <2>1, <2>2 DEF TypeInv, ControlTypes, DataTypes, TypeOK
<1> QED
  BY <1>1, TypeInvariant, ClientInvariant, PTL

-----------------------------------------------------------------------------
(* Who owns the blocks: the machine, the tasks that live, and the messages   *)
(* that wait in an inbox or were refused by one.                             *)

Kept == Queued \cup refused

(* A message is stored with its payload; one that came without may have no   *)
(* block for it.                                                             *)
MessageStored(m, bs, held) ==
  bs = MessageBlocks(m, held) \/ (held = 0 /\ bs = {Block(m, "Message", SizeOf.Message)})

Distinct ==
  \A s, t \in TaskId : \A i \in 1 .. Len(inbox[s]), j \in 1 .. Len(inbox[t]) :
    inbox[s][i] = inbox[t][j] => s = t /\ i = j

(* A task that lives has a parent that lives, and its list of children has   *)
(* room for them all; there are none for the tasks to come.                  *)
ListsHoldChildren ==
  /\ \A c \in live : c # Root => parent[c] \in live
  /\ \A t \in TaskId : t \notin live => childCapacity[t] = 0
  /\ \A t \in TaskId : ChildCount(t) <= childCapacity[t]

Lists ==
  /\ phase = "off" =>
       /\ live = {} /\ tasks_number = 0 /\ refused = {} /\ miscounted = FALSE
       /\ blocks = {} /\ dynamic_memory_usage = 0
  /\ phase = "running" => Root \in live
  /\ live \subseteq 0 .. tasks_number
  /\ \A t \in TaskId : t \notin live => inbox[t] = <<>>
  /\ Distinct
  /\ Queued \cap refused = {}
  /\ \A m \in Kept : message[m].held \in {0, message[m].payload_size}
  /\ ListsHoldChildren

Owned ==
  /\ \A b \in blocks : b.owner \in {Cpu} \cup live \cup Kept
  /\ Stored(Cpu, blocks) = MachineBlocks(server)
  /\ \A t \in live : Stored(t, blocks) = TaskBlocks(t) \cup ListBlocks(t, childCapacity[t])
  /\ \A m \in Kept : MessageStored(m, Stored(m, blocks), message[m].held)

Returned == \A b \in blocks : b.owner \in refused \/ b.what = "server"

OwnerInv ==
  /\ Lists
  /\ phase = "running" => Owned
  /\ phase = "exited" => Returned

LEMMA OwnersDiffer ==
  ASSUME TypeInv
  PROVE  /\ Kept \subseteq Message /\ Queued \subseteq Message
         /\ \A t \in TaskId : t \notin Message /\ t # Cpu
         /\ Cpu \notin Message
<1>1. Queued \subseteq Message
  <2> SUFFICES ASSUME NEW t \in live PROVE Range(inbox[t]) \subseteq Message
    BY DEF Queued
  <2>1. inbox[t] \in Seq(Message)
    BY DEF TypeInv, ControlTypes, DataTypes
  <2> QED
    BY <2>1, ElementOfSeq DEF Range
<1>2. \A t \in TaskId : t # Cpu
  BY MemoryAssumption DEF TaskId, Cpu
<1> QED
  BY <1>1, <1>2, MemoryAssumption DEF Kept, TypeInv, DataTypes

QueuedSomewhere ==
  /\ \A t \in TaskId : /\ inbox[t] \in Seq(Message)
                       /\ Len(inbox[t]) \in Nat /\ DOMAIN inbox[t] = 1 .. Len(inbox[t])
  /\ \A m : m \in Queued <=> \E t \in live : \E i \in 1 .. Len(inbox[t]) : inbox[t][i] = m

LEMMA InAnInbox == TypeInv => QueuedSomewhere
<1> SUFFICES ASSUME TypeInv PROVE QueuedSomewhere
  OBVIOUS
<1>1. \A t \in TaskId : /\ inbox[t] \in Seq(Message)
                        /\ Len(inbox[t]) \in Nat /\ DOMAIN inbox[t] = 1 .. Len(inbox[t])
  BY DEF TypeInv, DataTypes
<1>2. live \subseteq TaskId
  BY DEF TypeInv, ControlTypes
<1> QED
  BY <1>1, <1>2 DEF QueuedSomewhere, Queued, Range

(* push_message. *)
LEMMA QueuedAfterPush ==
  ASSUME TypeInv, TypeInv', Lists, NEW d \in live, NEW m \in Message, m \notin Queued,
         inbox' = [inbox EXCEPT ![d] = Append(@, m)], live' = live
  PROVE  /\ Queued' = Queued \cup {m}
         /\ Distinct'
         /\ \A t \in TaskId : t \notin live => inbox'[t] = <<>>
<1>1. d \in TaskId /\ live \subseteq TaskId /\ inbox \in [TaskId -> Seq(Message)]
  BY DEF TypeInv, ControlTypes, DataTypes
<1>2. inbox[d] \in Seq(Message) /\ Len(inbox[d]) \in Nat
  BY <1>1
<1>3. /\ Len(inbox'[d]) = Len(inbox[d]) + 1
      /\ \A i \in 1 .. Len(inbox[d]) : inbox'[d][i] = inbox[d][i]
      /\ inbox'[d][Len(inbox[d]) + 1] = m
  BY <1>1, <1>2, AppendElements, AppendProperties
<1>4. \A t \in TaskId : t # d => inbox'[t] = inbox[t]
  BY <1>1
<1>5. \A x : x \in Queued <=> \E t \in live : \E i \in 1 .. Len(inbox[t]) : inbox[t][i] = x
  BY InAnInbox DEF QueuedSomewhere
<1>6. \A x : x \in Queued' <=> \E t \in live : \E i \in 1 .. Len(inbox'[t]) : inbox'[t][i] = x
  <2>1. TypeInv' => QueuedSomewhere'
    BY InAnInbox, PTL
  <2> QED
    BY <2>1 DEF QueuedSomewhere
<1>7. \A t \in TaskId : \A i \in 1 .. Len(inbox'[t]) :
        \/ i \in 1 .. Len(inbox[t]) /\ inbox'[t][i] = inbox[t][i]
        \/ t = d /\ i = Len(inbox[d]) + 1 /\ inbox'[t][i] = m
  BY <1>2, <1>3, <1>4
<1>8. Queued' = Queued \cup {m}
  <2>1. \A x \in Queued' : x \in Queued \cup {m}
    BY <1>1, <1>5, <1>6, <1>7
  <2>2. \A x \in Queued : x \in Queued'
    <3> SUFFICES ASSUME NEW t \in live, NEW i \in 1 .. Len(inbox[t])
                 PROVE  i \in 1 .. Len(inbox'[t]) /\ inbox'[t][i] = inbox[t][i]
      BY <1>5, <1>6
    <3> QED
      BY <1>1, <1>2, <1>3, <1>4
  <2>3. m \in Queued'
    BY <1>2, <1>3, <1>6
  <2> QED
    BY <2>1, <2>2, <2>3
<1>9. Distinct'
  <2> SUFFICES ASSUME NEW s \in TaskId, NEW t \in TaskId, NEW i \in 1 .. Len(inbox'[s]),
                      NEW j \in 1 .. Len(inbox'[t]), inbox'[s][i] = inbox'[t][j]
               PROVE  s = t /\ i = j
    BY DEF Distinct
  <2>1. \A u \in TaskId : \A k \in 1 .. Len(inbox[u]) : inbox[u][k] # m
    <3> SUFFICES ASSUME NEW u \in TaskId, NEW k \in 1 .. Len(inbox[u]) PROVE inbox[u][k] # m
      OBVIOUS
    <3>1. u \in live
      <4>1. inbox[u] = <<>> => Len(inbox[u]) = 0
        OBVIOUS
      <4> QED
        BY <4>1 DEF Lists
    <3> QED
      BY <1>5, <3>1
  <2>2. CASE i \in 1 .. Len(inbox[s]) /\ inbox'[s][i] = inbox[s][i]
    BY <1>7, <2>1, <2>2 DEF Lists, Distinct
  <2>3. CASE s = d /\ i = Len(inbox[d]) + 1 /\ inbox'[s][i] = m
    BY <1>7, <2>1, <2>3
  <2> QED
    BY <1>7, <2>2, <2>3
<1>10. \A t \in TaskId : t \notin live => inbox'[t] = <<>>
  BY <1>4 DEF Lists
<1> QED
  BY <1>8, <1>9, <1>10

(* pop_message. *)
LEMMA QueuedAfterPop ==
  ASSUME TypeInv, TypeInv', Lists, NEW d \in live, inbox[d] # <<>>,
         inbox' = [inbox EXCEPT ![d] = Tail(@)], live' = live
  PROVE  /\ Head(inbox[d]) \in Queued
         /\ Queued' = Queued \ {Head(inbox[d])}
         /\ Distinct'
         /\ \A t \in TaskId : t \notin live => inbox'[t] = <<>>
<1> DEFINE m == Head(inbox[d])
<1>1. d \in TaskId /\ live \subseteq TaskId /\ inbox \in [TaskId -> Seq(Message)]
  BY DEF TypeInv, ControlTypes, DataTypes
<1>2. inbox[d] \in Seq(Message) /\ Len(inbox[d]) \in Nat \ {0}
  BY <1>1, EmptySeq
<1>3. /\ Len(inbox'[d]) = Len(inbox[d]) - 1
      /\ \A i \in 1 .. Len(inbox[d]) - 1 : inbox'[d][i] = inbox[d][i + 1]
      /\ inbox[d][1] = m
  BY <1>1, <1>2, TailElements, HeadTailProperties
<1> HIDE DEF m
<1>4. \A t \in TaskId : t # d => inbox'[t] = inbox[t]
  BY <1>1
<1>5. \A x : x \in Queued <=> \E t \in live : \E i \in 1 .. Len(inbox[t]) : inbox[t][i] = x
  BY InAnInbox DEF QueuedSomewhere
<1>6. \A x : x \in Queued' <=> \E t \in live : \E i \in 1 .. Len(inbox'[t]) : inbox'[t][i] = x
  <2>1. TypeInv' => QueuedSomewhere'
    BY InAnInbox, PTL
  <2> QED
    BY <2>1 DEF QueuedSomewhere
<1> DEFINE from(t, i) == IF t = d THEN i + 1 ELSE i
<1>7. \A t \in TaskId : \A i \in 1 .. Len(inbox'[t]) :
        /\ from(t, i) \in 1 .. Len(inbox[t]) /\ inbox'[t][i] = inbox[t][from(t, i)]
        /\ inbox'[t][i] # m
  <2> SUFFICES ASSUME NEW t \in TaskId, NEW i \in 1 .. Len(inbox'[t])
               PROVE  /\ from(t, i) \in 1 .. Len(inbox[t]) /\ inbox'[t][i] = inbox[t][from(t, i)]
                      /\ inbox'[t][i] # m
    OBVIOUS
  <2>1. from(t, i) \in 1 .. Len(inbox[t]) /\ inbox'[t][i] = inbox[t][from(t, i)]
    BY <1>2, <1>3, <1>4
  <2>2. t # d \/ from(t, i) # 1
    OBVIOUS
  <2>3. 1 \in 1 .. Len(inbox[d]) /\ Distinct
    BY <1>2 DEF Lists
  <2> HIDE DEF from
  <2> QED
    BY <1>1, <1>3, <2>1, <2>2, <2>3 DEF Distinct
<1>8. m \in Queued
  BY <1>2, <1>3, <1>5
<1>9. Queued' = Queued \ {m}
  <2>1. ASSUME NEW x \in Queued'
        PROVE  x \in Queued /\ x # m
    <3>1. PICK t \in live : \E i \in 1 .. Len(inbox'[t]) : inbox'[t][i] = x
      BY <1>6
    <3>2. PICK i \in 1 .. Len(inbox'[t]) : inbox'[t][i] = x
      BY <3>1
    <3> HIDE DEF from
    <3>3. from(t, i) \in 1 .. Len(inbox[t]) /\ inbox[t][from(t, i)] = x /\ x # m
      BY <1>1, <1>7, <3>2
    <3> QED
      BY <1>5, <3>3
  <2>2. ASSUME NEW x \in Queued, x # m
        PROVE  x \in Queued'
    <3>1. PICK t \in live : \E i \in 1 .. Len(inbox[t]) : inbox[t][i] = x
      BY <1>5
    <3>2. PICK i \in 1 .. Len(inbox[t]) : inbox[t][i] = x
      BY <3>1
    <3>3. CASE t # d
      BY <1>1, <1>4, <1>6, <3>2, <3>3
    <3>4. CASE t = d
      <4>1. i # 1 /\ i - 1 \in 1 .. Len(inbox[d]) - 1 /\ (i - 1) + 1 = i
        BY <1>2, <1>3, <2>2, <3>2, <3>4
      <4>2. inbox'[d][i - 1] = x /\ i - 1 \in 1 .. Len(inbox'[d])
        BY <1>2, <1>3, <3>2, <3>4, <4>1
      <4> QED
        BY <1>6, <3>4, <4>2
    <3> QED
      BY <3>3, <3>4
  <2> QED
    BY <2>1, <2>2
<1>10. Distinct'
  <2> SUFFICES ASSUME NEW s \in TaskId, NEW t \in TaskId, NEW i \in 1 .. Len(inbox'[s]),
                      NEW j \in 1 .. Len(inbox'[t]), inbox'[s][i] = inbox'[t][j]
               PROVE  s = t /\ i = j
    BY DEF Distinct
  <2>1. s = t /\ from(s, i) = from(t, j)
    <3> HIDE DEF from
    <3>1. from(s, i) \in 1 .. Len(inbox[s]) /\ inbox'[s][i] = inbox[s][from(s, i)]
      BY <1>7
    <3>2. from(t, j) \in 1 .. Len(inbox[t]) /\ inbox'[t][j] = inbox[t][from(t, j)]
      BY <1>7
    <3> QED
      <4>1. Distinct
        BY Zenon DEF Lists
      <4>2. inbox[s][from(s, i)] = inbox[t][from(t, j)]
        BY <3>1, <3>2
      <4> QED
        BY <3>1, <3>2, <4>1, <4>2 DEF Distinct
  <2>2. Len(inbox'[s]) \in Nat
    BY <1>2, <1>3, <1>4, InAnInbox DEF QueuedSomewhere
  <2> QED
    BY <2>1, <2>2
<1>11. \A t \in TaskId : t \notin live => inbox'[t] = <<>>
  BY <1>4 DEF Lists
<1> QED
  BY <1>8, <1>9, <1>10, <1>11 DEF m

(* message_queue_free, for the inboxes of the tasks that are freed. *)
LEMMA QueuedAfterReturn ==
  ASSUME TypeInv, TypeInv', Lists, NEW gone \in SUBSET live, live' = live \ gone,
         inbox' = [g \in TaskId |-> IF g \in gone THEN <<>> ELSE inbox[g]]
  PROVE  LET mail == UNION {Range(inbox[g]) : g \in gone} IN
         /\ mail \subseteq Queued
         /\ Queued' = Queued \ mail
         /\ Distinct'
         /\ \A t \in TaskId : t \notin live' => inbox'[t] = <<>>
<1> DEFINE mail == UNION {Range(inbox[g]) : g \in gone}
<1>1. live \subseteq TaskId /\ inbox \in [TaskId -> Seq(Message)]
  BY DEF TypeInv, ControlTypes, DataTypes
<1>2. \A t \in TaskId : DOMAIN inbox[t] = 1 .. Len(inbox[t])
  BY InAnInbox DEF QueuedSomewhere
<1>3. \A x : x \in Queued <=> \E t \in live : \E i \in 1 .. Len(inbox[t]) : inbox[t][i] = x
  BY InAnInbox DEF QueuedSomewhere
<1>4. \A x : x \in mail <=> \E t \in gone : \E i \in 1 .. Len(inbox[t]) : inbox[t][i] = x
  BY <1>1, <1>2 DEF Range
<1>5. \A x : x \in Queued' <=> \E t \in live' : \E i \in 1 .. Len(inbox'[t]) : inbox'[t][i] = x
  <2>1. TypeInv' => QueuedSomewhere'
    BY InAnInbox, PTL
  <2> QED
    BY <2>1 DEF QueuedSomewhere
<1> HIDE DEF mail
<1>6. \A t \in TaskId : t \in gone => inbox'[t] = <<>>
  OBVIOUS
<1>7. \A t \in TaskId : t \notin gone => inbox'[t] = inbox[t]
  OBVIOUS
<1>8. mail \subseteq Queued
  BY <1>3, <1>4
<1>9. \A x : x \in Queued' <=> \E t \in live \ gone : \E i \in 1 .. Len(inbox[t]) : inbox[t][i] = x
  BY <1>1, <1>5, <1>7
<1>10. Queued' = Queued \ mail
  <2>1. ASSUME NEW x \in Queued', x \in mail
        PROVE  FALSE
    <3>1. PICK t \in live \ gone : \E i \in 1 .. Len(inbox[t]) : inbox[t][i] = x
      BY <1>9
    <3>2. PICK g \in gone : \E i \in 1 .. Len(inbox[g]) : inbox[g][i] = x
      BY <1>4, <2>1
    <3>3. t = g
      BY <1>1, <3>1, <3>2 DEF Lists, Distinct
    <3> QED
      BY <3>3
  <2>2. \A x \in Queued' : x \in Queued
    BY <1>3, <1>9
  <2>3. ASSUME NEW x \in Queued, x \notin mail
        PROVE  x \in Queued'
    <3>1. PICK t \in live : \E i \in 1 .. Len(inbox[t]) : inbox[t][i] = x
      BY <1>3
    <3>2. t \notin gone
      BY <1>4, <2>3, <3>1
    <3> QED
      BY <1>9, <3>1, <3>2
  <2> QED
    BY <2>1, <2>2, <2>3
<1>11. Distinct'
  <2> SUFFICES ASSUME NEW s \in TaskId, NEW t \in TaskId, NEW i \in 1 .. Len(inbox'[s]),
                      NEW j \in 1 .. Len(inbox'[t]), inbox'[s][i] = inbox'[t][j]
               PROVE  s = t /\ i = j
    BY DEF Distinct
  <2>1. \A u \in TaskId : u \in gone => Len(inbox'[u]) = 0
    BY <1>6
  <2>2. s \notin gone /\ t \notin gone
    BY <2>1
  <2> QED
    BY <1>7, <2>2 DEF Lists, Distinct
<1>12. \A t \in TaskId : t \notin live' => inbox'[t] = <<>>
  BY <1>6, <1>7 DEF Lists
<1> QED
  BY <1>8, <1>10, <1>11, <1>12 DEF mail

-----------------------------------------------------------------------------
(* What the blocks of a message are, and what freeing it frees. *)

(* The lists of children. *)
Children(t) == {c \in live : c # Root /\ parent[c] = t}

LEMMA ChildrenAreFinite ==
  ASSUME TypeInv
  PROVE  /\ \A t : IsFiniteSet(Children(t)) /\ ChildCount(t) = Cardinality(Children(t))
         /\ \A t : ChildCount(t) \in Nat
<1>1. IsFiniteSet(live)
  <2>1. MAX_TASKS \in Int /\ 0 \in Int
    BY MemoryAssumption
  <2>2. IsFiniteSet(TaskId)
    BY <2>1, FS_Interval DEF TaskId
  <2> QED
    BY <2>2, FS_Subset DEF TypeInv, ControlTypes
<1>2. \A t : Children(t) \in SUBSET live
  BY DEF Children
<1>3. \A t : IsFiniteSet(Children(t))
  BY <1>1, <1>2, FS_Subset
<1>4. \A t : ChildCount(t) = Cardinality(Children(t))
  BY DEF ChildCount, Children
<1> QED
  BY <1>3, <1>4, FS_CardinalityType

LEMMA FewerChildren ==
  ASSUME TypeInv, TypeInv', NEW t, Children(t)' \subseteq Children(t)
  PROVE  ChildCount(t)' <= ChildCount(t)
<1>1. IsFiniteSet(Children(t)) /\ ChildCount(t) = Cardinality(Children(t))
  BY ChildrenAreFinite
<1>2. ChildCount(t)' = Cardinality(Children(t)')
  BY DEF ChildCount, Children
<1>3. Cardinality(Children(t)') <= Cardinality(Children(t))
  BY <1>1, FS_Subset
<1> QED
  BY <1>1, <1>2, <1>3

LEMMA SameLists ==
  ASSUME ListsHoldChildren, live' = live, parent' = parent, childCapacity' = childCapacity
  PROVE  ListsHoldChildren'
<1>1. \A t : ChildCount(t)' = ChildCount(t)
  BY DEF ChildCount
<1> QED
  BY <1>1 DEF ListsHoldChildren

LEMMA NoLists ==
  ASSUME live = {}, \A t \in TaskId : childCapacity[t] = 0
  PROVE  ListsHoldChildren
<1>1. \A t : ChildCount(t) = 0
  <2>1. \A t : {c \in live : c # Root /\ parent[c] = t} = {}
    OBVIOUS
  <2> QED
    BY <2>1, FS_EmptySet DEF ChildCount
<1> QED
  BY <1>1 DEF ListsHoldChildren

LEMMA ListsAfterCall ==
  ASSUME TypeInv, TypeInv', ListsHoldChildren,
         NEW p \in live, NEW t \in TaskId, t \notin live, t # Root,
         live' = live \cup {t}, parent' = [parent EXCEPT ![t] = p],
         childCapacity' = [childCapacity EXCEPT ![p] = CapacityForOneMore(p)]
  PROVE  ListsHoldChildren'
<1>1. /\ p \in TaskId /\ live \subseteq TaskId /\ childCapacity \in [TaskId -> Nat]
      /\ parent \in [TaskId -> TaskId]
  BY DEF TypeInv, ControlTypes
<1>2. \A c \in live : parent'[c] = parent[c]
  BY <1>1
<1>3. parent'[t] = p
  BY <1>1
<1>4. \A s \in TaskId : childCapacity'[s] = IF s = p THEN CapacityForOneMore(p) ELSE childCapacity[s]
  BY <1>1
<1>5. \A c \in live' : c # Root => parent'[c] \in live'
  BY <1>2, <1>3 DEF ListsHoldChildren
<1>6. \A s \in TaskId : s \notin live' => childCapacity'[s] = 0
  BY <1>4 DEF ListsHoldChildren
<1>7. Children(p)' = Children(p) \cup {t} /\ t \notin Children(p)
  BY <1>2, <1>3 DEF Children
<1>8. ChildCount(p)' = ChildCount(p) + 1
  <2>1. IsFiniteSet(Children(p)) /\ ChildCount(p) = Cardinality(Children(p))
    BY ChildrenAreFinite
  <2>2. ChildCount(p)' = Cardinality(Children(p)')
    BY DEF ChildCount, Children
  <2> QED
    BY <1>7, <2>1, <2>2, FS_AddElement
<1>9. ChildCount(p)' <= childCapacity'[p]
  <2>1. ChildCount(p) \in Nat /\ childCapacity[p] \in Nat /\ ChildCount(p) <= childCapacity[p]
    BY <1>1, ChildrenAreFinite DEF ListsHoldChildren
  <2> QED
    BY <1>1, <1>4, <1>8, <2>1 DEF CapacityForOneMore
<1>10. ASSUME NEW s \in TaskId, s # p
       PROVE  ChildCount(s)' <= childCapacity'[s]
  <2>1. Children(s)' \subseteq Children(s)
    BY <1>2, <1>3, <1>10 DEF Children
  <2>2. ChildCount(s)' <= ChildCount(s)
    BY <2>1, FewerChildren
  <2>3. /\ ChildCount(s) \in Nat /\ childCapacity[s] \in Nat /\ ChildCount(s) <= childCapacity[s]
        /\ childCapacity'[s] = childCapacity[s]
    BY <1>1, <1>4, <1>10, ChildrenAreFinite DEF ListsHoldChildren
  <2>4. ChildCount(s)' \in Nat
    <3>1. ChildCount(s)' = Cardinality(Children(s)')
      BY DEF ChildCount, Children
    <3>2. IsFiniteSet(Children(s)')
      BY <2>1, ChildrenAreFinite, FS_Subset
    <3> QED
      BY <3>1, <3>2, FS_CardinalityType
  <2> QED
    BY <2>2, <2>3, <2>4
<1>11. \A s \in TaskId : ChildCount(s)' <= childCapacity'[s]
  BY <1>9, <1>10
<1> QED
  BY <1>5, <1>6, <1>11 DEF ListsHoldChildren

LEMMA ListsAfterReturn ==
  ASSUME TypeInv, TypeInv', ListsHoldChildren,
         NEW gone \in SUBSET live, ClosedUnderChildren(gone), live' = live \ gone,
         parent' = [g \in TaskId |-> IF g \in gone THEN Root ELSE parent[g]],
         childCapacity' = [g \in TaskId |-> IF g \in gone THEN 0 ELSE childCapacity[g]]
  PROVE  ListsHoldChildren'
<1>1. live \subseteq TaskId /\ childCapacity \in [TaskId -> Nat]
  BY DEF TypeInv, ControlTypes
<1>2. \A c \in live' : parent'[c] = parent[c]
  BY <1>1
<1>3. \A c \in live' : c # Root => parent'[c] \in live'
  BY <1>2 DEF ListsHoldChildren, ClosedUnderChildren
<1>4. \A s \in TaskId : s \notin live' => childCapacity'[s] = 0
  BY DEF ListsHoldChildren
<1>5. ASSUME NEW s \in TaskId
      PROVE  ChildCount(s)' <= childCapacity'[s]
  <2>1. CASE s \in gone
    <3>1. Children(s)' = {}
      BY <1>2, <2>1 DEF Children, ClosedUnderChildren
    <3>2. ChildCount(s)' = Cardinality(Children(s)')
      BY DEF ChildCount, Children
    <3>3. ChildCount(s)' = 0 /\ childCapacity'[s] = 0
      BY <2>1, <3>1, <3>2, FS_EmptySet
    <3> QED
      BY <3>3
  <2>2. CASE s \notin gone
    <3>1. Children(s)' \subseteq Children(s)
      BY <1>2 DEF Children
    <3>2. ChildCount(s)' <= ChildCount(s)
      BY <3>1, FewerChildren
    <3>3. /\ ChildCount(s) \in Nat /\ childCapacity[s] \in Nat
          /\ ChildCount(s) <= childCapacity[s] /\ childCapacity'[s] = childCapacity[s]
      BY <1>1, <2>2, ChildrenAreFinite DEF ListsHoldChildren
    <3>4. ChildCount(s)' \in Nat
      <4>1. ChildCount(s)' = Cardinality(Children(s)')
        BY DEF ChildCount, Children
      <4>2. IsFiniteSet(Children(s)')
        BY <3>1, ChildrenAreFinite, FS_Subset
      <4> QED
        BY <4>1, <4>2, FS_CardinalityType
    <3> QED
      BY <3>2, <3>3, <3>4
  <2> QED
    BY <2>1, <2>2
<1> QED
  BY <1>3, <1>4, <1>5 DEF ListsHoldChildren

LEMMA OfAList ==
  ASSUME NEW t, NEW n
  PROVE  \A b \in ListBlocks(t, n) : b.owner = t /\ b.what = "children"
BY DEF ListBlocks, Block

(* What a task owns once its list of children has been reallocated. *)
LEMMA Relisted ==
  ASSUME NEW p, NEW n \in Nat, n # 0, NEW new, Reallocate(new, ListBlocks(p, n), {})
  PROVE  blocks' = ListBlocks(p, n)
                     \cup {b \in blocks \cup new : ~(b.owner = p /\ b.what = "children")}
<1> DEFINE c == Block(p, "children", n * SizeOf.Pointer)
<1>1. c.owner = p /\ c.what = "children" /\ ListBlocks(p, n) = {c}
  BY DEF ListBlocks, Block
<1> HIDE DEF c
<1> DEFINE kept == {b \in blocks \cup new : \A d \in {c} \cup {} : ~Same(b, d)}
<1>2. blocks' = {c} \cup kept
  BY <1>1 DEF Reallocate
<1>3. kept = {b \in blocks \cup new : ~(b.owner = p /\ b.what = "children")}
  <2>1. \A b : Same(b, c) <=> b.owner = p /\ b.what = "children"
    BY <1>1 DEF Same
  <2> QED
    BY <2>1
<1> HIDE DEF kept
<1> QED
  BY <1>1, <1>2, <1>3

LEMMA OfAMessage ==
  ASSUME NEW m, NEW bs, NEW held, MessageStored(m, bs, held)
  PROVE  /\ \A b \in bs : b.owner = m /\ b.what \in {"Message", "payload"}
         /\ Block(m, "Message", SizeOf.Message) \in bs
         /\ \A n : \A b \in bs : \E c \in MessageBlocks(m, n) : Same(b, c)
<1>1. \A b \in bs : b.owner = m /\ b.what \in {"Message", "payload"}
  BY DEF MessageStored, MessageBlocks, Block
<1>2. ASSUME NEW n, NEW b \in bs
      PROVE  \E c \in MessageBlocks(m, n) : Same(b, c)
  <2>1. CASE b.what = "Message"
    BY <1>1, <2>1 DEF MessageBlocks, Block, Same
  <2>2. CASE b.what = "payload"
    BY <1>1, <2>2 DEF MessageBlocks, Block, Same
  <2> QED
    BY <1>1, <2>1, <2>2
<1> QED
  BY <1>1, <1>2 DEF MessageStored, MessageBlocks

LEMMA OfATask ==
  ASSUME NEW t
  PROVE  /\ \A b \in TaskBlocks(t) : b.owner = t
         /\ \A b \in TaskBlocks(t) : b \in TaskFrees(t) \/ b = Block(t, "node", SizeOf.TaskTreeNode)
         /\ TaskBlocks(t) # {}
         /\ \A b \in TaskBlocks(t) : b.what # "children"
<1>1. \A b \in TaskBlocks(t) : b.owner = t
  BY DEF TaskBlocks, StackBlocks, Block
<1>2. \A b \in TaskBlocks(t) : b \in TaskFrees(t) \/ b = Block(t, "node", SizeOf.TaskTreeNode)
  BY DEF TaskBlocks, TaskFrees, InboxFrees
<1>3. TaskBlocks(t) # {}
  BY DEF TaskBlocks
<1>4. \A b \in TaskBlocks(t) : b.what # "children"
  BY DEF TaskBlocks, StackBlocks, Block
<1> QED
  BY <1>1, <1>2, <1>3, <1>4

(* The owners of what freeing a part of the tree frees. *)
LEMMA OwnersOfFreed ==
  ASSUME NEW S, NEW c \in TreeFrees(S)
  PROVE  c.owner \in S \/ c.owner \in UNION {Range(inbox[t]) : t \in S}
<1>1. ASSUME NEW t \in S, c \in TaskFrees(t)
      PROVE  c.owner = t \/ c.owner \in Range(inbox[t])
  BY <1>1 DEF TaskFrees, InboxFrees, MessageFrees, MessageBlocks, StackBlocks, Block
<1>2. \/ \E t \in S : c \in TaskFrees(t)
      \/ \E t \in S : c = Block(t, "children", SizeOf.TaskTreeNode * ChildCount(t))
      \/ \E t \in S : c = Block(t, "node", SizeOf.TaskTreeNode)
  BY DEF TreeFrees
<1>3. CASE \E t \in S : c \in TaskFrees(t)
  BY <1>1, <1>3
<1>4. CASE ~ \E t \in S : c \in TaskFrees(t)
  BY <1>2, <1>4 DEF Block
<1> QED
  BY <1>3, <1>4

(* It frees all they own. *)
LEMMA FreedOfOwners ==
  ASSUME TypeInv, Owned, NEW S \in SUBSET live, NEW b \in blocks,
         b.owner \in S \/ b.owner \in UNION {Range(inbox[t]) : t \in S}
  PROVE  \E c \in TreeFrees(S) : Same(b, c)
<1>1. \A t \in S : \A c \in TaskFrees(t) : c \in TreeFrees(S)
  BY DEF TreeFrees
<1>2. \A t \in S : Block(t, "node", SizeOf.TaskTreeNode) \in TreeFrees(S)
  BY DEF TreeFrees
<1>3. CASE b.owner \in S
  <2> DEFINE t == b.owner
  <2>1. b \in TaskBlocks(t) \/ b \in ListBlocks(t, childCapacity[t])
    BY <1>3 DEF Owned, Stored
  <2>2. CASE b \in TaskBlocks(t)
    <3>1. b \in TreeFrees(S)
      BY <1>1, <1>2, <1>3, <2>2, OfATask
    <3> QED
      BY <3>1 DEF Same
  <2>3. CASE b \in ListBlocks(t, childCapacity[t])
    <3> DEFINE c == Block(t, "children", SizeOf.TaskTreeNode * ChildCount(t))
    <3>1. c \in TreeFrees(S)
      BY <1>3 DEF TreeFrees
    <3>2. b.owner = t /\ b.what = "children"
      BY <2>3, OfAList
    <3>3. c.owner = t /\ c.what = "children"
      BY DEF Block
    <3> QED
      BY <3>1, <3>2, <3>3 DEF Same
  <2> QED
    BY <2>1, <2>2, <2>3
<1>4. CASE b.owner \in UNION {Range(inbox[t]) : t \in S}
  <2>1. PICK t \in S : b.owner \in Range(inbox[t])
    BY <1>4
  <2> DEFINE m == b.owner
  <2>2. m \in Kept
    BY <2>1 DEF Kept, Queued
  <2>3. MessageStored(m, Stored(m, blocks), message[m].held) /\ b \in Stored(m, blocks)
    BY <2>2 DEF Owned, Stored
  <2>4. PICK c \in MessageFrees(m) : Same(b, c)
    BY <2>3, OfAMessage DEF MessageFrees
  <2>5. c \in TaskFrees(t)
    BY <2>1 DEF TaskFrees, InboxFrees
  <2> QED
    BY <1>1, <2>4, <2>5
<1> QED
  BY <1>3, <1>4

(* An address with no block is no message that is kept. *)
LEMMA FreeIsNotKept ==
  ASSUME Owned, NEW m, \A b \in blocks : b.owner # m
  PROVE  m \notin Kept /\ Stored(m, blocks) = {}
<1>1. Stored(m, blocks) = {}
  BY DEF Stored
<1>2. m \in Kept => Stored(m, blocks) # {}
  BY OfAMessage DEF Owned
<1> QED
  BY <1>1, <1>2

LEMMA DeliverOwned ==
  ASSUME TypeInv, TypeInv', Lists, Owned, phase = "running",
         UNCHANGED <<phase, server, taskVars>>,
         NEW m \in Message, \A b \in blocks : b.owner # m,
         NEW msg \in [payload_size : Nat, held : Nat], msg.held \in {0, msg.payload_size},
         NEW new, MessageStored(m, new, msg.held), NEW d, Deliver(m, new, msg, d)
  PROVE  Lists' /\ Owned'
<1>1. m \notin Kept /\ Stored(m, blocks) = {} /\ Kept = Queued \cup refused
  BY FreeIsNotKept DEF Kept
<1>2. \A b \in new : b.owner = m /\ b.what \in {"Message", "payload"}
  BY OfAMessage
<1>3. /\ live' = live /\ tasks_number' = tasks_number /\ server' = server /\ phase' = phase
      /\ childCapacity' = childCapacity /\ ListsHoldChildren'
  BY SameLists DEF taskVars, Lists
<1>4. \A p \in Message : p # m => message'[p] = message[p]
  BY DEF Deliver, TypeInv, DataTypes
<1>5. d \in live => message'[m] = msg
  BY DEF Deliver, TypeInv, DataTypes
<1>6. /\ Kept \subseteq Message
      /\ \A t \in live : t # m
      /\ Cpu # m
  BY OwnersDiffer DEF TypeInv, ControlTypes
<1>7. ASSUME Account(new, {}), Kept' = Kept \cup {m}, d \in live
      PROVE  Owned'
  <2>1. /\ blocks' = blocks \cup new
        /\ Stored(m, blocks') = new
        /\ \A p : p # m => Stored(p, blocks') = Stored(p, blocks)
    BY <1>1, <1>2, <1>7, Added
  <2>2. \A b \in blocks' : b.owner \in {Cpu} \cup live \cup Kept'
    BY <1>2, <1>7, <2>1 DEF Owned
  <2>3. Stored(Cpu, blocks') = MachineBlocks(server)
    BY <1>6, <2>1 DEF Owned
  <2>4. \A t \in live : Stored(t, blocks') = TaskBlocks(t) \cup ListBlocks(t, childCapacity[t])
    BY <1>6, <2>1 DEF Owned
  <2>5. ASSUME NEW p \in Kept'
        PROVE  MessageStored(p, Stored(p, blocks'), message'[p].held)
    <3>1. CASE p = m
      BY <1>5, <1>7, <2>1, <3>1
    <3>2. CASE p # m
      BY <1>4, <1>6, <1>7, <2>1, <3>2 DEF Owned
    <3> QED
      BY <3>1, <3>2
  <2> QED
    BY <1>3, <2>2, <2>3, <2>4, <2>5 DEF Owned
<1>8. ASSUME Kept' = Kept \cup {m}, d \in live
      PROVE  \A p \in Kept' : message'[p].held \in {0, message'[p].payload_size}
  BY <1>4, <1>5, <1>6, <1>8 DEF Lists
<1>9. CASE d \in live /\ inbox' = [inbox EXCEPT ![d] = Append(@, m)]
             /\ Account(new, {}) /\ UNCHANGED <<refused, miscounted>>
  <2>1. /\ Queued' = Queued \cup {m}
        /\ Distinct'
        /\ \A t \in TaskId : t \notin live => inbox'[t] = <<>>
    BY <1>1, <1>3, <1>9, QueuedAfterPush
  <2>2. Kept' = Kept \cup {m} /\ Queued' \cap refused' = {}
    BY <1>1, <1>9, <2>1 DEF Kept, Lists
  <2>3. Lists'
    BY <1>3, <1>8, <1>9, <2>1, <2>2 DEF Lists
  <2> QED
    BY <1>7, <1>9, <2>2, <2>3
<1>10. CASE d \in live /\ refused' = refused \cup {m} /\ Account(new, {})
              /\ UNCHANGED <<inbox, miscounted>>
  <2>1. Queued' = Queued /\ Distinct'
    BY <1>3, <1>10 DEF Queued, Lists, Distinct
  <2>2. Kept' = Kept \cup {m} /\ Queued' \cap refused' = {}
    BY <1>1, <1>10, <2>1 DEF Kept, Lists
  <2>3. Lists'
    BY <1>3, <1>8, <1>10, <2>1, <2>2 DEF Lists
  <2> QED
    BY <1>7, <1>10, <2>2, <2>3
<1>11. CASE Account(new, MessageBlocks(m, msg.payload_size)) /\ UNCHANGED <<inbox, refused>>
  <2>1. Queued' = Queued /\ Distinct' /\ Kept' = Kept
    BY <1>3, <1>11 DEF Queued, Lists, Distinct, Kept
  <2>2. blocks' = blocks
    <3>1. \A b \in new : \E c \in MessageBlocks(m, msg.payload_size) : Same(b, c)
      BY OfAMessage
    <3>2. \A b \in blocks, c \in MessageBlocks(m, msg.payload_size) : ~Same(b, c)
      BY DEF MessageBlocks, Block, Same
    <3>3. blocks' = {b \in blocks \cup new : \A c \in MessageBlocks(m, msg.payload_size) : ~Same(b, c)}
      BY <1>11, AccountMeans
    <3> QED
      BY <3>1, <3>2, <3>3
  <2>3. \A p \in Kept : message'[p] = message[p]
    BY <1>1, <1>4, <1>6
  <2>4. Owned'
    BY <1>3, <2>1, <2>2, <2>3 DEF Owned
  <2>5. Lists'
    BY <1>3, <1>11, <2>1, <2>3 DEF Lists
  <2> QED
    BY <2>4, <2>5
<1> QED
  BY <1>9, <1>10, <1>11 DEF Deliver

LEMMA ReceivedIsStored ==
  ASSUME NEW m, NEW held \in Nat
  PROVE  MessageStored(m, ReceivedBlocks(m, held), held)
<1>1. CASE held = 0
  BY <1>1 DEF MessageStored, ReceivedBlocks
<1>2. CASE held # 0
  BY <1>2 DEF MessageStored, ReceivedBlocks, MessageBlocks
<1> QED
  BY <1>1, <1>2

LEMMA NothingKept ==
  ASSUME \A t \in TaskId : inbox[t] = <<>>, live \subseteq TaskId
  PROVE  Queued = {}
BY DEF Queued, Range

LEMMA EndsLists ==
  ASSUME Ends, phase' \in {"undefined", "exited"}, TypeInv'
  PROVE  Lists'
<1>1. live' = {} /\ tasks_number' = 0 /\ \A t \in TaskId : inbox'[t] = <<>>
  BY DEF Ends
<1>2. Queued' = {} /\ Kept' = refused'
  BY <1>1 DEF Queued, Kept
<1>3. Distinct'
  <2>1. \A t \in TaskId : Len(inbox'[t]) = 0
    BY <1>1
  <2> QED
    BY <2>1 DEF Distinct
<1>4. \A m \in Kept' : message'[m].held = 0
  <2>1. Kept' \subseteq Message
    BY <1>2 DEF TypeInv, DataTypes
  <2> QED
    BY <2>1 DEF Ends, NoPayload
<1>5. ListsHoldChildren'
  <2>1. live' = {} /\ \A t \in TaskId : childCapacity'[t] = 0
    BY DEF Ends
  <2>2. \A t : ChildCount(t)' = 0
    <3>1. \A t : {c \in live' : c # Root /\ parent'[c] = t} = {}
      BY <2>1
    <3> QED
      BY <3>1, FS_EmptySet DEF ChildCount
  <2> QED
    BY <2>1, <2>2 DEF ListsHoldChildren
<1> QED
  BY <1>1, <1>2, <1>3, <1>4, <1>5 DEF Lists

LEMMA StopOwned == Stop => OwnerInv'
<1> SUFFICES ASSUME Stop PROVE OwnerInv'
  OBVIOUS
<1>1. Lists'
  BY StopTypes, EndsLists DEF Stop
<1> QED
  BY <1>1 DEF Stop, OwnerInv

LEMMA UnchangedOwned ==
  ASSUME OwnerInv, UNCHANGED machineVars
  PROVE  OwnerInv'
<1>1. /\ phase' = phase /\ server' = server /\ tasks_number' = tasks_number /\ live' = live
      /\ inbox' = inbox /\ message' = message /\ blocks' = blocks
      /\ dynamic_memory_usage' = dynamic_memory_usage /\ refused' = refused /\ miscounted' = miscounted
      /\ parent' = parent /\ childCapacity' = childCapacity
  BY DEF machineVars, taskVars, memory
<1>2. Queued' = Queued /\ Kept' = Kept /\ (Distinct' <=> Distinct)
  BY <1>1 DEF Queued, Kept, Distinct
<1>3. Lists' /\ (phase' = "running" => Owned') /\ (phase' = "exited" => Returned')
  BY <1>1, <1>2, SameLists DEF OwnerInv, Lists, Owned, Returned
<1> QED
  BY <1>3 DEF OwnerInv

LEMMA SubtreeIsBelowRoot ==
  ASSUME NEW t \in live \ {Root}
  PROVE  Subtree(t) \subseteq live \ {Root} /\ ClosedUnderChildren(Subtree(t))
<1> DEFINE S == live \ {Root}
<1>1. S \in SUBSET live /\ t \in S /\ ClosedUnderChildren(S)
  BY DEF ClosedUnderChildren
<1>2. \A c \in Subtree(t) : c \in live /\ c \in S
  BY <1>1 DEF Subtree
<1>3. ASSUME NEW c \in live \ {Root}, parent[c] \in Subtree(t)
      PROVE  c \in Subtree(t)
  BY <1>3 DEF Subtree, ClosedUnderChildren
<1> QED
  BY <1>2, <1>3 DEF ClosedUnderChildren

LEMMA OwnerStep ==
  ASSUME TypeInv, TypeInv', ClientInv, Waits, OwnerInv, [Next]_vars
  PROVE  OwnerInv'
<1>0. /\ Lists /\ live \subseteq TaskId /\ tasks_number \in Nat /\ MAX_TASKS \in Nat
      /\ inbox \in [TaskId -> Seq(Message)]
  <2>1. tasks_number \in TaskId /\ live \subseteq TaskId /\ inbox \in [TaskId -> Seq(Message)]
    BY DEF TypeInv, ControlTypes, DataTypes
  <2>2. MAX_TASKS \in Nat
    BY MemoryAssumption
  <2> QED
    BY <2>1, <2>2 DEF OwnerInv, TaskId
<1>1. CASE Start
  <2>1. /\ phase' = "running" /\ live' = {Root} /\ refused' = {} /\ tasks_number' = 0
        /\ inbox' = inbox /\ Account(MachineBlocks(server') \cup TaskBlocks(Root), {})
        /\ live = {} /\ blocks = {} /\ childCapacity' = childCapacity
    BY <1>0, <1>1 DEF Start, Lists
  <2>2. \A t \in TaskId : inbox[t] = <<>> /\ childCapacity[t] = 0
    BY <1>0, <2>1 DEF Lists, ListsHoldChildren
  <2>3. Queued' = {} /\ Kept' = {}
    <3>1. live' \subseteq TaskId
      BY DEF TypeInv, ControlTypes
    <3> QED
      BY <2>1, <2>2, <3>1 DEF Queued, Kept, Range
  <2>4. Distinct'
    BY <2>1, <2>2 DEF Distinct
  <2>12. ListsHoldChildren'
    <3>1. \A t : ChildCount(t)' = 0
      <4>1. \A t : {c \in live' : c # Root /\ parent'[c] = t} = {}
        BY <2>1
      <4> QED
        BY <4>1, FS_EmptySet DEF ChildCount
    <3> QED
      BY <2>1, <2>2, <3>1 DEF ListsHoldChildren
  <2>5. Lists'
    BY <2>1, <2>2, <2>3, <2>4, <2>12 DEF Lists, Root
  <2>6. blocks' = MachineBlocks(server') \cup TaskBlocks(Root)
    BY <2>1, AccountMeans
  <2>7. \A b \in MachineBlocks(server') : b.owner = Cpu
    BY DEF MachineBlocks, Block
  <2>8. \A b \in TaskBlocks(Root) : b.owner = Root
    BY OfATask
  <2>9. Root # Cpu
    BY DEF Root, Cpu
  <2>10. Stored(Cpu, blocks') = MachineBlocks(server') /\ Stored(Root, blocks') = TaskBlocks(Root)
    BY <2>6, <2>7, <2>8, <2>9 DEF Stored
  <2>13. ListBlocks(Root, childCapacity'[Root]) = {}
    <3>1. Root \in TaskId
      BY MemoryAssumption DEF TaskId, Root
    <3> QED
      BY <2>1, <2>2, <3>1 DEF ListBlocks
  <2>11. Owned'
    BY <2>1, <2>3, <2>6, <2>7, <2>8, <2>10, <2>13 DEF Owned
  <2> QED
    BY <2>1, <2>5, <2>11 DEF OwnerInv
<1>2. CASE AsyncCall
  <2>1. CASE Stop
    BY <2>1, StopOwned
  <2>2. CASE ~Stop
    <3> DEFINE t == tasks_number + 1
    <3>1. PICK p \in live :
            /\ tasks_number' = t
            /\ live' = live \cup {t}
            /\ parent' = [parent EXCEPT ![t] = p]
            /\ childCapacity' = [childCapacity EXCEPT ![p] = CapacityForOneMore(p)]
            /\ Reallocate(TaskBlocks(t), ListBlocks(p, CapacityForOneMore(p)), {})
            /\ UNCHANGED <<serverVars, phase, server, inbox, message, refused, miscounted>>
      BY <1>2, <2>2, Zenon DEF AsyncCall
    <3>2. phase = "running" /\ Owned
      BY <1>2 DEF AsyncCall, Working, OwnerInv
    <3>3. t \in TaskId /\ t \notin live /\ t # Root
      BY <1>0, <1>2 DEF AsyncCall, TaskId, Lists, Root
    <3>16. ListsHoldChildren'
      <4> HIDE DEF t
      <4> QED
        BY <1>0, <3>1, <3>3, ListsAfterCall DEF Lists
    <3>4. inbox[t] = <<>>
      BY <1>0, <3>3 DEF Lists
    <3>5. Queued' = Queued /\ Kept' = Kept /\ Distinct'
      <4> HIDE DEF t
      <4>1. \A x : x \in Queued' <=> x \in Queued
        <5>1. \A x : x \in Queued <=> \E s \in live : x \in Range(inbox[s])
          BY DEF Queued
        <5>2. \A x : x \in Queued' <=> \E s \in live \cup {t} : x \in Range(inbox[s])
          BY <3>1 DEF Queued
        <5>3. Range(inbox[t]) = {}
          BY <3>4 DEF Range
        <5> QED
          BY <5>1, <5>2, <5>3
      <4>2. Distinct'
        BY <1>0, <3>1 DEF Lists, Distinct
      <4> QED
        BY <3>1, <4>1, <4>2 DEF Kept
    <3>6. t \notin Kept /\ t # Cpu /\ Kept \subseteq Message
      BY <3>3, OwnersDiffer
    <3>7. Lists'
      <4>1. live' \subseteq 0 .. tasks_number'
        <5>1. live \subseteq 0 .. tasks_number /\ tasks_number \in Nat
          BY <1>0 DEF Lists
        <5>2. live' = live \cup {tasks_number + 1} /\ tasks_number' = tasks_number + 1
          BY <3>1
        <5> QED
          BY <5>1, <5>2
      <4>2. \A s \in TaskId : s \notin live' => inbox'[s] = <<>>
        BY <1>0, <3>1 DEF Lists
      <4> HIDE DEF t
      <4> QED
        BY <1>0, <3>1, <3>2, <3>5, <3>16, <4>1, <4>2 DEF Lists
    <3> HIDE DEF t
    <3>8. Stored(t, blocks) = {}
      BY <3>2, <3>3, <3>6 DEF Owned, Stored
    <3>9. \A b \in TaskBlocks(t) : b.owner = t
      BY OfATask
    <3> DEFINE n == CapacityForOneMore(p)
    <3>17. /\ n \in Nat /\ n # 0 /\ p \in TaskId /\ p # t
           /\ childCapacity' = [childCapacity EXCEPT ![p] = n]
           /\ childCapacity \in [TaskId -> Nat]
           /\ Reallocate(TaskBlocks(t), ListBlocks(p, n), {})
      <4>1. p \in TaskId /\ p # t /\ childCapacity \in [TaskId -> Nat]
        BY <1>0, <3>3 DEF TypeInv, ControlTypes
      <4>2. n \in Nat
        BY <4>1, ListsAreBlocks
      <4>3. n # 0
        <5>1. ChildCount(p) \in Nat /\ childCapacity[p] \in Nat
          BY <4>1, ChildrenAreFinite
        <5> QED
          BY <5>1 DEF CapacityForOneMore
      <4> QED
        BY <3>1, <4>1, <4>2, <4>3
    <3> HIDE DEF n
    <3>18. blocks' = ListBlocks(p, n)
                       \cup {b \in blocks \cup TaskBlocks(t) : ~(b.owner = p /\ b.what = "children")}
      BY <3>17, Relisted
    <3>19. \A b \in ListBlocks(p, n) : b.owner = p /\ b.what = "children"
      BY OfAList
    <3>10. /\ Stored(t, blocks') = TaskBlocks(t)
           /\ \A o : o # t /\ o # p => Stored(o, blocks') = Stored(o, blocks)
      BY <3>8, <3>9, <3>17, <3>18, <3>19 DEF Stored
    <3>20. Stored(p, blocks') = TaskBlocks(p) \cup ListBlocks(p, n)
      <4>1. Stored(p, blocks) = TaskBlocks(p) \cup ListBlocks(p, childCapacity[p])
        BY <3>2 DEF Owned
      <4>2. /\ \A b \in TaskBlocks(p) : b.owner = p /\ b.what # "children"
            /\ \A b \in ListBlocks(p, childCapacity[p]) : b.owner = p /\ b.what = "children"
        BY OfATask, OfAList
      <4>3. \A b : b \in Stored(p, blocks')
                     <=> b \in ListBlocks(p, n) \/ (b \in Stored(p, blocks) /\ b.what # "children")
        BY <3>9, <3>17, <3>18, <3>19 DEF Stored
      <4> QED
        BY <4>1, <4>2, <4>3
    <3>11. \A b \in blocks' : b.owner \in {Cpu} \cup live' \cup Kept'
      BY <3>1, <3>2, <3>5, <3>9, <3>18, <3>19 DEF Owned
    <3>12. Stored(Cpu, blocks') = MachineBlocks(server')
      <4>1. Cpu # p
        BY <3>17, OwnersDiffer
      <4> QED
        BY <3>1, <3>2, <3>6, <3>10, <4>1 DEF Owned
    <3>13. \A s \in live' : Stored(s, blocks') = TaskBlocks(s) \cup ListBlocks(s, childCapacity'[s])
      <4> SUFFICES ASSUME NEW s \in live'
                   PROVE  Stored(s, blocks') = TaskBlocks(s) \cup ListBlocks(s, childCapacity'[s])
        OBVIOUS
      <4>1. CASE s = t
        <5>1. childCapacity'[t] = 0
          BY <1>0, <3>3, <3>17 DEF Lists, ListsHoldChildren
        <5> QED
          BY <3>10, <4>1, <5>1 DEF ListBlocks
      <4>2. CASE s = p
        BY <3>17, <3>20, <4>2
      <4>3. CASE s # t /\ s # p
        <5>1. s \in live /\ childCapacity'[s] = childCapacity[s]
          BY <1>0, <3>1, <3>17, <4>3
        <5> QED
          BY <3>2, <3>10, <4>3, <5>1 DEF Owned
      <4> QED
        BY <4>1, <4>2, <4>3
    <3>14. \A m \in Kept' : MessageStored(m, Stored(m, blocks'), message'[m].held)
      <4>1. p \notin Kept
        BY <3>6, <3>17, OwnersDiffer
      <4> QED
        BY <3>1, <3>2, <3>5, <3>6, <3>10, <4>1 DEF Owned
    <3>15. Owned'
      BY <3>11, <3>12, <3>13, <3>14 DEF Owned
    <3> QED
      BY <3>1, <3>2, <3>7, <3>15 DEF OwnerInv
  <2> QED
    BY <2>1, <2>2
<1>3. CASE AsyncReturn
  <2>1. PICK t \in live \ {Root} :
          LET gone == Subtree(t)
              mail == UNION {Range(inbox[g]) : g \in gone}
          IN
          /\ live' = live \ gone
          /\ inbox' = [g \in TaskId |-> IF g \in gone THEN <<>> ELSE inbox[g]]
          /\ Account({}, TreeFrees(gone))
          /\ parent' = [g \in TaskId |-> IF g \in gone THEN Root ELSE parent[g]]
          /\ childCapacity' = [g \in TaskId |-> IF g \in gone THEN 0 ELSE childCapacity[g]]
          /\ message' = [m \in Message |-> IF m \in mail THEN NoPayload ELSE message[m]]
          /\ UNCHANGED <<serverVars, phase, server, tasks_number, refused>>
    BY <1>3, Zenon DEF AsyncReturn
  <2> DEFINE gone == Subtree(t)
             mail == UNION {Range(inbox[g]) : g \in gone}
             X == gone \cup mail
  <2>2. phase = "running" /\ Owned
    BY <1>3 DEF AsyncReturn, Working, OwnerInv
  <2>3. gone \in SUBSET live /\ Root \notin gone /\ ClosedUnderChildren(gone)
    BY SubtreeIsBelowRoot
  <2>4. phase' = phase /\ server' = server /\ tasks_number' = tasks_number /\ refused' = refused
    BY <2>1
  <2>5. Account({}, TreeFrees(gone)) /\ live' = live \ gone
    BY <2>1
  <2>6. inbox' = [g \in TaskId |-> IF g \in gone THEN <<>> ELSE inbox[g]]
    BY <2>1
  <2>7. message' = [m \in Message |-> IF m \in mail THEN NoPayload ELSE message[m]]
    BY <2>1
  <2>18. /\ parent' = [g \in TaskId |-> IF g \in gone THEN Root ELSE parent[g]]
         /\ childCapacity' = [g \in TaskId |-> IF g \in gone THEN 0 ELSE childCapacity[g]]
    BY <2>1
  <2> HIDE DEF gone
  <2>19. ListsHoldChildren'
    BY <1>0, <2>3, <2>5, <2>18, ListsAfterReturn DEF Lists
  <2>8. /\ mail \subseteq Queued
        /\ Queued' = Queued \ mail
        /\ Distinct'
        /\ \A s \in TaskId : s \notin live' => inbox'[s] = <<>>
    BY <1>0, <2>3, <2>5, <2>6, QueuedAfterReturn
  <2>9. \A c \in TreeFrees(gone) : c.owner \in X
    BY OwnersOfFreed
  <2>10. \A b \in blocks : b.owner \in X => \E c \in TreeFrees(gone) : Same(b, c)
    BY <2>2, <2>3, FreedOfOwners
  <2> HIDE DEF mail, X
  <2>11. /\ blocks' = {b \in blocks : b.owner \notin X}
         /\ \A p : p \notin X => Stored(p, blocks') = Stored(p, blocks)
    BY <2>5, <2>9, <2>10, Dropped
  <2>12. /\ Kept \subseteq Message /\ \A s \in TaskId : s \notin Message /\ s # Cpu
         /\ Cpu \notin Message /\ Queued \subseteq Kept /\ refused \cap Queued = {}
    BY <1>0, OwnersDiffer DEF Kept, Lists
  <2>13. Kept' = Kept \ mail
    BY <2>4, <2>8, <2>12 DEF Kept
  <2>14. \A p \in {Cpu} \cup live' \cup Kept' : p \notin X
    BY <1>0, <2>3, <2>5, <2>8, <2>12, <2>13 DEF X
  <2>15. \A m \in Kept' : message'[m] = message[m]
    BY <2>7, <2>12, <2>13
  <2>16. Lists'
    <3>1. live' \subseteq 0 .. tasks_number' /\ Root \in live'
      BY <1>0, <2>2, <2>3, <2>4, <2>5 DEF Lists
    <3>2. Queued' \cap refused' = {}
      BY <2>4, <2>8, <2>12
    <3>3. \A m \in Kept' : message'[m].held \in {0, message'[m].payload_size}
      BY <1>0, <2>13, <2>15 DEF Lists
    <3> QED
      BY <2>2, <2>4, <2>8, <2>19, <3>1, <3>2, <3>3 DEF Lists
  <2>17. Owned'
    <3>1. \A b \in blocks' : b.owner \in {Cpu} \cup live' \cup Kept'
      BY <2>2, <2>5, <2>11, <2>13 DEF Owned, X
    <3>2. Stored(Cpu, blocks') = MachineBlocks(server')
      BY <2>2, <2>4, <2>11, <2>14 DEF Owned
    <3>3. \A s \in live' : Stored(s, blocks') = TaskBlocks(s) \cup ListBlocks(s, childCapacity'[s])
      <4>1. \A s \in live' : s \in live /\ childCapacity'[s] = childCapacity[s]
        BY <1>0, <2>5, <2>18
      <4> QED
        BY <2>2, <2>11, <2>14, <4>1 DEF Owned
    <3>4. \A m \in Kept' : MessageStored(m, Stored(m, blocks'), message'[m].held)
      BY <2>2, <2>11, <2>13, <2>14, <2>15 DEF Owned
    <3> QED
      BY <3>1, <3>2, <3>3, <3>4 DEF Owned
  <2> QED
    BY <2>2, <2>4, <2>16, <2>17 DEF OwnerInv
<1>4. CASE Halt
  <2>1. phase = "running" /\ Owned /\ phase' = "exited" /\ Ends /\ refused' = refused
    BY <1>4 DEF Halt, Working, OwnerInv
  <2>2. Lists'
    BY <2>1, EndsLists
  <2>3. Returned'
    <3> SUFFICES ASSUME NEW b \in blocks' PROVE b.owner \in refused \/ b.what = "server"
      BY <2>1 DEF Returned
    <3>1. b \in blocks /\ \A c \in MachineFrees : ~Same(b, c)
      BY <1>4, AccountMeans DEF Halt
    <3>2. b.owner \in {Cpu} \cup live \cup Queued \cup refused
      BY <2>1, <3>1 DEF Owned, Kept
    <3>3. CASE b.owner = Cpu
      <4>1. b \in MachineBlocks(server)
        BY <2>1, <3>1, <3>3 DEF Owned, Stored
      <4>2. b.what \in {"CPU", "bank", "ports"} \/ b.what = "server"
        BY <4>1 DEF MachineBlocks, Block
      <4>3. \A w \in {"CPU", "bank", "ports"} : \E c \in MachineFrees : c.owner = Cpu /\ c.what = w
        <5>1. /\ Block(Cpu, "ports", PORTS) \in MachineFrees
              /\ Block(Cpu, "bank", SizeOf.PortBank) \in MachineFrees
              /\ Block(Cpu, "CPU", SizeOf.CPU) \in MachineFrees
          BY DEF MachineFrees
        <5> QED
          BY <5>1 DEF Block
      <4> QED
        BY <3>1, <3>3, <4>2, <4>3 DEF Same
    <3>4. CASE b.owner \in live \cup Queued
      <4>1. b.owner \in live \/ b.owner \in UNION {Range(inbox[t]) : t \in live}
        BY <3>4 DEF Queued
      <4>2. PICK c \in TreeFrees(live) : Same(b, c)
        BY <2>1, <3>1, <4>1, FreedOfOwners
      <4> QED
        BY <3>1, <4>2 DEF MachineFrees
    <3> QED
      BY <3>2, <3>3, <3>4
  <2> QED
    BY <2>1, <2>2, <2>3 DEF OwnerInv
<1>5. CASE Send
  <2>1. CASE Stop
    BY <2>1, StopOwned
  <2>2. CASE ~Stop
    <3>1. PICK d \in TaskId, n \in PayloadSizes :
            LET m == NewAddress IN
            /\ FreeAddresses # {}
            /\ Deliver(m, MessageBlocks(m, n), [payload_size |-> n, held |-> n], d)
            /\ UNCHANGED <<phase, server, taskVars>>
      BY <1>5, <2>2, Zenon DEF Send
    <3> DEFINE m == NewAddress
               msg == [payload_size |-> n, held |-> n]
    <3>2. n \in Nat /\ phase = "running" /\ Owned
      BY <1>5, MemoryAssumption, WireAssumption DEF Word, Send, Working, OwnerInv
    <3>3. m \in Message /\ \A b \in blocks : b.owner # m
      BY <3>1, NewAddressIsFree
    <3>4. MessageStored(m, MessageBlocks(m, n), n)
      BY DEF MessageStored
    <3>5. msg \in [payload_size : Nat, held : Nat] /\ msg.held = n /\ msg.payload_size = n
      BY <3>2
    <3>6. Deliver(m, MessageBlocks(m, n), msg, d) /\ UNCHANGED <<phase, server, taskVars>>
      BY <3>1
    <3> HIDE DEF m, msg
    <3>7. Lists' /\ Owned'
      BY <1>0, <3>2, <3>3, <3>4, <3>5, <3>6, DeliverOwned
    <3> QED
      BY <3>2, <3>6, <3>7 DEF OwnerInv
  <2> QED
    BY <2>1, <2>2
<1>6. CASE Poll
  BY <1>6, StopOwned, UnchangedOwned DEF Poll
<1>7. CASE Receive
  <2>1. CASE Stop
    BY <2>1, StopOwned
  <2>2. CASE UNCHANGED machineVars
    BY <2>2, UnchangedOwned
  <2>3. CASE ~Stop /\ ~UNCHANGED machineVars
    <3> DEFINE r == Received
               m == NewAddress
               held == Len(r.payload)
               new == {Block(m, "Message", SizeOf.Message)}
                        \cup IF held > 0 THEN {Block(m, "payload", held)} ELSE {}
               msg == [payload_size |-> r.payload_size, held |-> held]
    <3>1. /\ r # NULL /\ CanRead
          /\ Deliver(m, new, msg, r.task_dst)
          /\ UNCHANGED <<phase, server, taskVars>>
      BY <1>7, <2>3, Zenon DEF Receive
    <3>2. r.payload_size \in Nat /\ held \in Nat /\ held \in {0, r.payload_size}
      BY <3>1, ReceivedFits
    <3>3. phase = "running" /\ Owned /\ FreeAddresses # {}
      BY <3>1 DEF Waits, CanRead, OwnerInv
    <3>4. m \in Message /\ \A b \in blocks : b.owner # m
      BY <3>3, NewAddressIsFree
    <3>5. /\ new = ReceivedBlocks(m, held) /\ msg \in [payload_size : Nat, held : Nat]
          /\ msg.held = held /\ msg.payload_size = r.payload_size
      BY <3>2 DEF ReceivedBlocks
    <3> HIDE DEF r, m, held, new, msg
    <3>6. MessageStored(m, new, msg.held)
      BY <3>2, <3>5, ReceivedIsStored
    <3>7. Lists' /\ Owned'
      BY <1>0, <3>1, <3>2, <3>3, <3>4, <3>5, <3>6, DeliverOwned
    <3> QED
      BY <3>1, <3>3, <3>7 DEF OwnerInv
  <2> QED
    BY <2>1, <2>2, <2>3
<1>8. CASE ProcessMessage
  <2>1. PICK t \in live :
          /\ inbox[t] # <<>>
          /\ LET m == Head(inbox[t]) IN
               /\ Account({}, MessageFrees(m))
               /\ message' = [message EXCEPT ![m] = NoPayload]
          /\ inbox' = [inbox EXCEPT ![t] = Tail(@)]
          /\ UNCHANGED <<phase, server, taskVars, refused>>
    BY <1>8, Zenon DEF ProcessMessage
  <2> DEFINE m == Head(inbox[t])
  <2>2. /\ phase = "running" /\ Owned
        /\ phase' = phase /\ server' = server /\ tasks_number' = tasks_number /\ live' = live
        /\ refused' = refused /\ childCapacity' = childCapacity /\ ListsHoldChildren'
    BY <1>0, <1>8, <2>1, SameLists DEF ProcessMessage, Working, OwnerInv, taskVars, Lists
  <2>3. Account({}, MessageFrees(m)) /\ message' = [message EXCEPT ![m] = NoPayload]
    BY <2>1
  <2>4. /\ m \in Queued
        /\ Queued' = Queued \ {m}
        /\ Distinct'
        /\ \A s \in TaskId : s \notin live => inbox'[s] = <<>>
    BY <1>0, <2>1, <2>2, QueuedAfterPop
  <2> HIDE DEF m
  <2>5. /\ Kept \subseteq Message /\ \A s \in TaskId : s \notin Message /\ s # Cpu
        /\ Cpu \notin Message /\ m \in Kept /\ m \notin refused
    BY <1>0, <2>4, OwnersDiffer DEF Kept, Lists
  <2>6. Kept' = Kept \ {m}
    BY <2>2, <2>4, <2>5 DEF Kept
  <2>7. \A c \in MessageFrees(m) : c.owner \in {m}
    BY DEF MessageFrees, MessageBlocks, Block
  <2>8. \A b \in blocks : b.owner \in {m} => \E c \in MessageFrees(m) : Same(b, c)
    <3> SUFFICES ASSUME NEW b \in blocks, b.owner = m PROVE \E c \in MessageFrees(m) : Same(b, c)
      OBVIOUS
    <3>1. MessageStored(m, Stored(m, blocks), message[m].held) /\ b \in Stored(m, blocks)
      BY <2>2, <2>5 DEF Owned, Stored
    <3> QED
      BY <3>1, OfAMessage DEF MessageFrees
  <2>9. /\ blocks' = {b \in blocks : b.owner \notin {m}}
        /\ \A p : p \notin {m} => Stored(p, blocks') = Stored(p, blocks)
    BY <2>3, <2>7, <2>8, Dropped
  <2>10. \A p \in Kept' : message'[p] = message[p]
    <3>1. message \in [Message -> [payload_size : Nat, held : Nat]]
      BY DEF TypeInv, DataTypes
    <3> QED
      BY <2>3, <2>5, <2>6, <3>1
  <2>11. Lists'
    <3>1. Queued' \cap refused' = {}
      BY <1>0, <2>2, <2>4 DEF Lists
    <3>2. \A p \in Kept' : message'[p].held \in {0, message'[p].payload_size}
      BY <1>0, <2>6, <2>10 DEF Lists
    <3> QED
      BY <1>0, <2>2, <2>4, <3>1, <3>2 DEF Lists
  <2>12. Owned'
    <3>1. \A b \in blocks' : b.owner \in {Cpu} \cup live' \cup Kept'
      BY <2>2, <2>6, <2>9 DEF Owned
    <3>2. Stored(Cpu, blocks') = MachineBlocks(server')
      BY <2>2, <2>5, <2>9 DEF Owned
    <3>3. \A s \in live' : Stored(s, blocks') = TaskBlocks(s) \cup ListBlocks(s, childCapacity'[s])
      BY <1>0, <2>2, <2>5, <2>9 DEF Owned
    <3>4. \A p \in Kept' : MessageStored(p, Stored(p, blocks'), message'[p].held)
      BY <2>2, <2>6, <2>9, <2>10 DEF Owned
    <3> QED
      BY <3>1, <3>2, <3>3, <3>4 DEF Owned
  <2> QED
    BY <2>2, <2>11, <2>12 DEF OwnerInv
<1>9. CASE Outside
  BY <1>9, UnchangedOwned DEF Outside
<1>10. CASE Gone \/ UNCHANGED vars
  BY <1>10, UnchangedOwned DEF Gone, vars
<1> QED
  BY <1>1, <1>2, <1>3, <1>4, <1>5, <1>6, <1>7, <1>8, <1>9, <1>10 DEF Next, Machine

LEMMA OwnerInitially == Init => OwnerInv
<1> SUFFICES ASSUME Init PROVE OwnerInv
  OBVIOUS
<1>1. /\ phase = "off" /\ live = {} /\ tasks_number = 0 /\ refused = {} /\ miscounted = FALSE
      /\ blocks = {} /\ dynamic_memory_usage = 0 /\ \A t \in TaskId : inbox[t] = <<>>
      /\ ListsHoldChildren
  BY NoLists DEF Init
<1>2. Kept = {} /\ Distinct
  BY <1>1 DEF Kept, Queued, Distinct
<1> QED
  BY <1>1, <1>2 DEF OwnerInv, Lists, Kept

LEMMA OwnerInvariant == Spec => []OwnerInv
<1>1. TypeInv /\ TypeInv' /\ ClientInv /\ Waits /\ OwnerInv /\ [Next]_vars => OwnerInv'
  BY OwnerStep
<1> QED
  BY <1>1, OwnerInitially, TypeInvariant, ClientInvariant, WaitsInvariant, PTL DEF Spec

(* All memory has an owner that exists, every task has its own, and a list   *)
(* with room for its children, and HALT leaves nothing but refused messages  *)
(* and the server (task_create, task_tree_add_child, task_free,              *)
(* task_tree_free, message_queue_free, deliver_local, cpu_free).             *)
THEOREM MemoryIsOwned == Spec => []NothingLeaks
<1>1. ASSUME TypeInv, OwnerInv, phase = "running"
      PROVE  /\ {b.owner : b \in blocks} = {Cpu} \cup live \cup Queued \cup refused
             /\ \A t \in live : /\ TaskBlocks(t) \cup ListBlocks(t, childCapacity[t]) \subseteq blocks
                                /\ ChildCount(t) <= childCapacity[t]
             /\ Queued \cap refused = {}
  <2>1. Lists /\ Owned
    BY <1>1 DEF OwnerInv
  <2>2. \A b \in blocks : b.owner \in {Cpu} \cup live \cup Queued \cup refused
    BY <2>1 DEF Owned, Kept
  <2>3. \A t \in live : TaskBlocks(t) \cup ListBlocks(t, childCapacity[t]) \subseteq blocks
    BY <2>1 DEF Owned, Stored
  <2>8. \A t \in live : ChildCount(t) <= childCapacity[t]
    BY <1>1, <2>1 DEF Lists, ListsHoldChildren, TypeInv, ControlTypes
  <2>4. \E b \in blocks : b.owner = Cpu
    <3>1. Block(Cpu, "CPU", SizeOf.CPU) \in Stored(Cpu, blocks)
      BY <2>1 DEF Owned, MachineBlocks
    <3> QED
      BY <3>1 DEF Stored
  <2>5. \A t \in live : \E b \in blocks : b.owner = t
    <3> SUFFICES ASSUME NEW t \in live PROVE \E b \in blocks : b.owner = t
      OBVIOUS
    <3>1. TaskBlocks(t) # {} /\ TaskBlocks(t) \subseteq blocks /\ \A b \in TaskBlocks(t) : b.owner = t
      BY <2>3, OfATask
    <3> QED
      BY <3>1
  <2>6. \A m \in Queued \cup refused : \E b \in blocks : b.owner = m
    <3> SUFFICES ASSUME NEW m \in Kept PROVE \E b \in blocks : b.owner = m
      BY DEF Kept
    <3>1. Block(m, "Message", SizeOf.Message) \in Stored(m, blocks)
      BY <2>1, OfAMessage DEF Owned
    <3> QED
      BY <3>1 DEF Stored
  <2>7. {b.owner : b \in blocks} = {Cpu} \cup live \cup Queued \cup refused
    BY <2>2, <2>4, <2>5, <2>6
  <2> QED
    BY <2>1, <2>3, <2>7, <2>8 DEF Lists
<1>2. TypeInv /\ OwnerInv => NothingLeaks
  BY <1>1 DEF NothingLeaks, OwnerInv, Returned
<1> QED
  BY <1>2, TypeInvariant, OwnerInvariant, PTL

-----------------------------------------------------------------------------
(* The counter. *)

(* What freeing c takes off the counter it has put there, or is nothing.     *)
FreedAsCounted(c, bs) ==
  /\ c \in bs \/ c.size = 0
  /\ \A b \in bs : Same(b, c) => b = c

LEMMA MessageFreedAsCounted ==
  ASSUME NEW m, NEW bs, NEW n, MessageStored(m, bs, n), NEW c \in MessageBlocks(m, n)
  PROVE  FreedAsCounted(c, bs)
<1>1. c = Block(m, "Message", SizeOf.Message) \/ c = Block(m, "payload", n)
  BY DEF MessageBlocks
<1>2. \A b \in bs : b = Block(m, "Message", SizeOf.Message) \/ b = Block(m, "payload", n)
  BY DEF MessageStored, MessageBlocks
<1>3. \A b \in bs : Same(b, c) => b = c
  BY <1>1, <1>2 DEF Block, Same
<1>4. c \in bs \/ c.size = 0
  BY <1>1 DEF MessageStored, MessageBlocks, Block
<1> QED
  BY <1>3, <1>4 DEF FreedAsCounted

LEMMA TaskFreedAsCounted ==
  ASSUME NEW t, NEW c \in TaskBlocks(t)
  PROVE  FreedAsCounted(c, TaskBlocks(t))
BY DEF FreedAsCounted, TaskBlocks, StackBlocks, Block, Same

(* A message that came whole, or was sent by a task. *)
LEMMA NotTruncated ==
  ASSUME TypeInv, Lists, NEW m \in Kept, ~IsTruncated(message[m])
  PROVE  message[m].held = message[m].payload_size
<1>1. message[m].held \in Nat /\ message[m].payload_size \in Nat
  BY OwnersDiffer DEF TypeInv, DataTypes
<1>2. message[m].held \in {0, message[m].payload_size}
  BY DEF Lists
<1> QED
  BY <1>1, <1>2 DEF IsTruncated

LEMMA KeptFreedAsCounted ==
  ASSUME TypeInv, Lists, Owned, NEW m \in Kept, ~IsTruncated(message[m]),
         NEW c \in MessageFrees(m)
  PROVE  FreedAsCounted(c, Counted(blocks))
<1>1. MessageStored(m, Stored(m, blocks), message[m].payload_size)
  BY NotTruncated DEF Owned
<1>2. FreedAsCounted(c, Stored(m, blocks))
  BY <1>1, MessageFreedAsCounted DEF MessageFrees
<1>3. c.owner = m
  BY DEF MessageFrees, MessageBlocks, Block
<1>4. Stored(m, blocks) \subseteq Counted(blocks)
  BY <1>1, OfAMessage DEF Counted, Stored
<1> QED
  BY <1>2, <1>3, <1>4 DEF FreedAsCounted, Stored, Same, Counted

LEMMA TreeFreedAsCounted ==
  ASSUME TypeInv, Lists, Owned, NEW S \in SUBSET live,
         \A g \in S : ~(ChildCount(g) > 0),
         \A m \in UNION {Range(inbox[g]) : g \in S} : ~IsTruncated(message[m]),
         NEW c \in TreeFrees(S)
  PROVE  FreedAsCounted(c, Counted(blocks))
<1>1. ASSUME NEW t \in S, c \in TaskBlocks(t)
      PROVE  FreedAsCounted(c, Counted(blocks))
  <2>1. \A b : b \in Counted(blocks) /\ b.owner = t <=> b \in TaskBlocks(t)
    <3>1. Stored(t, blocks) = TaskBlocks(t) \cup ListBlocks(t, childCapacity[t])
      BY DEF Owned
    <3> QED
      BY <3>1, OfATask, OfAList DEF Stored, Counted
  <2>2. FreedAsCounted(c, TaskBlocks(t)) /\ c.owner = t
    BY <1>1, TaskFreedAsCounted, OfATask
  <2> QED
    BY <2>1, <2>2 DEF FreedAsCounted, Same
<1>2. ASSUME NEW t \in S, NEW m \in Range(inbox[t]), c \in MessageFrees(m)
      PROVE  FreedAsCounted(c, Counted(blocks))
  <2>1. m \in Kept /\ ~IsTruncated(message[m])
    BY DEF Kept, Queued
  <2> QED
    BY <1>2, <2>1, KeptFreedAsCounted
<1>3. ASSUME NEW t \in S, c \in TaskFrees(t)
      PROVE  c \in TaskBlocks(t) \/ \E m \in Range(inbox[t]) : c \in MessageFrees(m)
  BY <1>3 DEF TaskFrees, InboxFrees, TaskBlocks
<1>4. ASSUME NEW t \in S, c = Block(t, "children", SizeOf.TaskTreeNode * ChildCount(t))
      PROVE  FreedAsCounted(c, Counted(blocks))
  <2>1. ChildCount(t) = 0
    <3>1. ChildCount(t) \in Nat
      BY FreedAreBlocks DEF TypeInv, ControlTypes
    <3> QED
      BY <3>1
  <2>2. c.size = 0 /\ c.owner = t /\ c.what = "children"
    <3>1. SizeOf.TaskTreeNode * ChildCount(t) = 0
      BY <2>1, SizesAreNat
    <3> QED
      BY <1>4, <3>1 DEF Block
  <2> QED
    BY <2>2 DEF FreedAsCounted, Same, Counted
<1>5. ASSUME NEW t \in S, c = Block(t, "node", SizeOf.TaskTreeNode)
      PROVE  c \in TaskBlocks(t)
  BY <1>5 DEF TaskBlocks
<1>6. \/ \E t \in S : c \in TaskFrees(t)
      \/ \E t \in S : c = Block(t, "children", SizeOf.TaskTreeNode * ChildCount(t))
      \/ \E t \in S : c = Block(t, "node", SizeOf.TaskTreeNode)
  BY DEF TreeFrees
<1> QED
  BY <1>1, <1>2, <1>3, <1>4, <1>5, <1>6

LEMMA ReallocatedAsCounted ==
  ASSUME TypeInv, UsageIsExact, phase = "running", miscounted = FALSE,
         NEW new, NEW moved, NEW old, AreBlocks(new), AreBlocks(old),
         Reallocate(new, moved, old),
         \A b \in new : ~IsList(b), \A b \in moved : IsList(b),
         blocks \cap new = {}, \A c \in old : FreedAsCounted(c, Counted(blocks) \cup new)
  PROVE  dynamic_memory_usage' = Total(Counted(blocks')) % Limit
<1>1. AreBlocks(blocks) /\ dynamic_memory_usage = Total(Counted(blocks)) % Limit
  BY DEF TypeInv, DataTypes, UsageIsExact
<1>2. \A b \in Counted(blocks) \cup new, c \in old : Same(b, c) => b = c
  BY DEF FreedAsCounted
<1>3. \A c \in old : c \in Counted(blocks) \cup new \/ c.size = 0
  BY DEF FreedAsCounted
<1> QED
  BY <1>1, <1>2, <1>3, ReallocateExact

LEMMA AccountedAsCounted ==
  ASSUME TypeInv, UsageIsExact, phase = "running", miscounted = FALSE,
         NEW new, NEW old, AreBlocks(new), AreBlocks(old), Account(new, old),
         \A b \in new : ~IsList(b),
         blocks \cap new = {}, \A c \in old : FreedAsCounted(c, Counted(blocks) \cup new)
  PROVE  dynamic_memory_usage' = Total(Counted(blocks')) % Limit
<1>1. Reallocate(new, {}, old)
  BY AccountMeans
<1> QED
  BY <1>1, ReallocatedAsCounted

LEMMA DeliverExact ==
  ASSUME TypeInv, Lists, Owned, UsageIsExact, phase = "running", miscounted' = FALSE,
         NEW m \in Message, \A b \in blocks : b.owner # m,
         NEW msg \in [payload_size : Nat, held : Nat], msg.held \in {0, msg.payload_size},
         NEW new, AreBlocks(new), MessageStored(m, new, msg.held), NEW d, Deliver(m, new, msg, d)
  PROVE  dynamic_memory_usage' = Total(Counted(blocks')) % Limit
<1>1. \A b \in new : b.owner = m
  BY OfAMessage
<1>2. blocks \cap new = {} /\ \A b \in new : ~IsList(b)
  BY <1>1, OfAMessage DEF IsList
<1>3. CASE Account(new, {}) /\ UNCHANGED miscounted
  BY <1>2, <1>3, AccountedAsCounted, NoBlocks
<1>4. CASE /\ Account(new, MessageBlocks(m, msg.payload_size))
           /\ miscounted' = (miscounted \/ IsTruncated(msg))
  <2>1. miscounted = FALSE /\ ~IsTruncated(msg)
    BY <1>4, Zenon DEF TypeInv, DataTypes
  <2>2. msg.held = msg.payload_size /\ msg.payload_size \in Nat
    BY <2>1 DEF IsTruncated
  <2> DEFINE n == msg.payload_size
  <2> HIDE DEF n
  <2>3. AreBlocks(MessageBlocks(m, n)) /\ MessageStored(m, new, n)
    BY <2>2, ConstructedAreBlocks DEF n
  <2>4. ASSUME NEW c \in MessageBlocks(m, n)
        PROVE  FreedAsCounted(c, Counted(blocks) \cup new)
    <3>1. FreedAsCounted(c, new)
      BY <2>3, MessageFreedAsCounted
    <3>2. c.owner = m
      BY DEF MessageBlocks, Block
    <3> QED
      BY <3>1, <3>2 DEF FreedAsCounted, Same, Counted
  <2>5. Account(new, MessageBlocks(m, n))
    BY <1>4 DEF n
  <2> QED
    BY <1>2, <2>1, <2>3, <2>4, <2>5, AccountedAsCounted
<1> QED
  BY <1>3, <1>4 DEF Deliver

LEMMA ExactStep ==
  ASSUME TypeInv, ClientInv, Waits, OwnerInv, UsageIsExact, [Next]_vars
  PROVE  UsageIsExact'
<1> SUFFICES ASSUME phase' = "running", miscounted' = FALSE
             PROVE  dynamic_memory_usage' = Total(Counted(blocks')) % Limit
  BY DEF UsageIsExact
<1>0. Lists /\ live \subseteq TaskId /\ ~Stop
  BY DEF OwnerInv, TypeInv, ControlTypes, Stop
<1>1. CASE Start
  <2> DEFINE new == MachineBlocks(server') \cup TaskBlocks(Root)
  <2>1. blocks = {} /\ dynamic_memory_usage = 0 /\ Account(new, {})
    BY <1>0, <1>1 DEF Start, Lists
  <2>2. AreBlocks(MachineBlocks(server')) /\ AreBlocks(TaskBlocks(Root))
    BY <1>1, ConstructedAreBlocks DEF Start
  <2>3. AreBlocks(new)
    BY <2>2, UnionOfBlocks
  <2>8. \A b \in new : ~IsList(b)
    <3>1. \A b \in MachineBlocks(server') : b.what # "children"
      BY DEF MachineBlocks, Block
    <3> QED
      BY <3>1, OfATask DEF IsList
  <2> HIDE DEF new
  <2>4. Total(Counted(blocks)) = 0
    <3>1. BytesOf(Counted(blocks)) = {}
      BY <2>1 DEF BytesOf, Counted
    <3> QED
      BY <3>1, FS_EmptySet DEF Total
  <2>5. dynamic_memory_usage = Total(Counted(blocks)) % Limit
    BY <2>1, <2>4, MemoryAssumption
  <2>6. AreBlocks(blocks) /\ blocks \cap new = {}
    BY <2>1, NoBlocks
  <2>9. Reallocate(new, {}, {})
    BY <2>1, AccountMeans
  <2> QED
    BY <2>3, <2>5, <2>6, <2>8, <2>9, NoBlocks, ReallocateExact
<1>2. CASE AsyncCall
  <2> DEFINE t == tasks_number + 1
             new == TaskBlocks(t)
  <2>6. PICK p \in live : Reallocate(new, ListBlocks(p, CapacityForOneMore(p)), {})
    BY <1>0, <1>2, Zenon DEF AsyncCall
  <2>1. miscounted' = miscounted /\ phase = "running" /\ Owned
    BY <1>0, <1>2 DEF AsyncCall, Working, OwnerInv
  <2>2. t \in TaskId /\ t \notin live
    <3>1. tasks_number \in TaskId /\ MAX_TASKS \in Nat /\ tasks_number < MAX_TASKS
      BY <1>2, MemoryAssumption DEF AsyncCall, TypeInv, ControlTypes
    <3> QED
      BY <1>0, <3>1 DEF TaskId, Lists
  <2> HIDE DEF t
  <2>3. t \notin {Cpu} \cup live \cup Kept
    BY <2>2, OwnersDiffer
  <2>4. blocks \cap new = {}
    BY <2>1, <2>3, OfATask DEF Owned
  <2>5. AreBlocks(new) /\ \A b \in new : ~IsList(b)
    BY ConstructedAreBlocks, OfATask DEF IsList
  <2>7. \A b \in ListBlocks(p, CapacityForOneMore(p)) : IsList(b)
    BY OfAList DEF IsList
  <2> HIDE DEF new
  <2> QED
    BY <2>1, <2>4, <2>5, <2>6, <2>7, NoBlocks, ReallocatedAsCounted
<1>3. CASE AsyncReturn
  <2>1. PICK t \in live \ {Root} :
          LET gone == Subtree(t)
              mail == UNION {Range(inbox[g]) : g \in gone}
          IN
          /\ Account({}, TreeFrees(gone))
          /\ miscounted' = (miscounted \/ (\E g \in gone : ChildCount(g) > 0)
                                      \/ \E m \in mail : IsTruncated(message[m]))
    BY <1>3, Zenon DEF AsyncReturn
  <2> DEFINE gone == Subtree(t)
             mail == UNION {Range(inbox[g]) : g \in gone}
  <2>2. phase = "running" /\ Owned
    BY <1>3 DEF AsyncReturn, Working, OwnerInv
  <2>3. gone \in SUBSET live
    BY SubtreeIsBelowRoot
  <2>4. Account({}, TreeFrees(gone))
    BY <2>1
  <2>5. miscounted' = (miscounted \/ (\E g \in gone : ChildCount(g) > 0)
                                  \/ \E m \in mail : IsTruncated(message[m]))
    BY <2>1, Zenon
  <2> HIDE DEF gone
  <2>6. /\ miscounted = FALSE
        /\ \A g \in gone : ~(ChildCount(g) > 0)
        /\ \A m \in mail : ~IsTruncated(message[m])
    <3> HIDE DEF mail
    <3> QED
      BY <2>5, Zenon DEF TypeInv, DataTypes
  <2>7. \A c \in TreeFrees(gone) : FreedAsCounted(c, Counted(blocks) \cup {})
    <3>1. Counted(blocks) \cup {} = Counted(blocks)
      OBVIOUS
    <3> QED
      BY <1>0, <2>2, <2>3, <2>6, <3>1, TreeFreedAsCounted
  <2>8. AreBlocks(TreeFrees(gone))
    <3>1. gone \in SUBSET TaskId
      BY <1>0, <2>3
    <3> QED
      BY <3>1, FreedAreBlocks
  <2>9. blocks \cap {} = {}
    OBVIOUS
  <2> QED
    BY <2>2, <2>4, <2>6, <2>7, <2>8, <2>9, NoBlocks, AccountedAsCounted
<1>4. CASE Halt
  BY <1>4 DEF Halt
<1>5. CASE Send
  <2>1. PICK d \in TaskId, n \in PayloadSizes :
          LET m == NewAddress IN
          /\ FreeAddresses # {}
          /\ Deliver(m, MessageBlocks(m, n), [payload_size |-> n, held |-> n], d)
    BY <1>0, <1>5, Zenon DEF Send
  <2> DEFINE m == NewAddress
             msg == [payload_size |-> n, held |-> n]
  <2>2. n \in Nat /\ phase = "running" /\ Owned
    BY <1>5, MemoryAssumption, WireAssumption DEF Word, Send, Working, OwnerInv
  <2>3. m \in Message /\ \A b \in blocks : b.owner # m
    BY <2>1, NewAddressIsFree
  <2>4. MessageStored(m, MessageBlocks(m, n), n) /\ AreBlocks(MessageBlocks(m, n))
    BY <2>2, ConstructedAreBlocks DEF MessageStored
  <2>5. msg \in [payload_size : Nat, held : Nat] /\ msg.held = n /\ msg.payload_size = n
    BY <2>2
  <2>6. Deliver(m, MessageBlocks(m, n), msg, d)
    BY <2>1
  <2> HIDE DEF m, msg
  <2> QED
    BY <1>0, <2>2, <2>3, <2>4, <2>5, <2>6, DeliverExact
<1>6. CASE UNCHANGED machineVars
  <2>1. /\ phase' = phase /\ miscounted' = miscounted /\ blocks' = blocks
        /\ dynamic_memory_usage' = dynamic_memory_usage
    BY <1>6 DEF machineVars, memory
  <2> QED
    BY <2>1 DEF UsageIsExact
<1>7. CASE Receive
  <2>1. CASE ~UNCHANGED machineVars
    <3> DEFINE r == Received
               m == NewAddress
               held == Len(r.payload)
               new == {Block(m, "Message", SizeOf.Message)}
                        \cup IF held > 0 THEN {Block(m, "payload", held)} ELSE {}
               msg == [payload_size |-> r.payload_size, held |-> held]
    <3>1. r # NULL /\ CanRead /\ Deliver(m, new, msg, r.task_dst)
      BY <1>0, <1>7, <2>1, Zenon DEF Receive
    <3>2. r.payload_size \in Nat /\ held \in Nat /\ held \in {0, r.payload_size}
      BY <3>1, ReceivedFits
    <3>3. phase = "running" /\ Owned /\ FreeAddresses # {}
      BY <3>1 DEF Waits, CanRead, OwnerInv
    <3>4. m \in Message /\ \A b \in blocks : b.owner # m
      BY <3>3, NewAddressIsFree
    <3>5. /\ new = ReceivedBlocks(m, held) /\ msg \in [payload_size : Nat, held : Nat]
          /\ msg.held = held /\ msg.payload_size = r.payload_size
      BY <3>2 DEF ReceivedBlocks
    <3> HIDE DEF r, m, held, new, msg
    <3>6. MessageStored(m, new, msg.held) /\ AreBlocks(new)
      BY <3>2, <3>5, ReceivedIsStored, ReceivedAreBlocks
    <3> QED
      BY <1>0, <3>1, <3>2, <3>3, <3>4, <3>5, <3>6, DeliverExact
  <2> QED
    BY <1>6, <2>1
<1>8. CASE ProcessMessage
  <2>1. PICK t \in live :
          /\ inbox[t] # <<>>
          /\ LET m == Head(inbox[t]) IN
               /\ Account({}, MessageFrees(m))
               /\ miscounted' = (miscounted \/ IsTruncated(message[m]))
    BY <1>8, Zenon DEF ProcessMessage
  <2> DEFINE m == Head(inbox[t])
  <2>2. phase = "running" /\ Owned
    BY <1>8 DEF ProcessMessage, Working, OwnerInv
  <2>3. Account({}, MessageFrees(m)) /\ miscounted' = (miscounted \/ IsTruncated(message[m]))
    BY <2>1, Zenon
  <2>4. m \in Kept /\ m \in Message
    <3>1. inbox[t] \in Seq(Message)
      BY <1>0 DEF TypeInv, DataTypes
    <3>2. m = inbox[t][1] /\ 1 \in DOMAIN inbox[t] /\ m \in Message
      BY <2>1, <3>1
    <3> HIDE DEF m
    <3> QED
      BY <3>2 DEF Kept, Queued, Range
  <2> HIDE DEF m
  <2>5. miscounted = FALSE /\ ~IsTruncated(message[m])
    BY <2>3, Zenon DEF TypeInv, DataTypes
  <2>6. \A c \in MessageFrees(m) : FreedAsCounted(c, Counted(blocks) \cup {})
    <3>1. Counted(blocks) \cup {} = Counted(blocks)
      OBVIOUS
    <3> QED
      BY <1>0, <2>2, <2>4, <2>5, <3>1, KeptFreedAsCounted
  <2>7. AreBlocks(MessageFrees(m)) /\ blocks \cap {} = {}
    BY <2>4, FreedAreBlocks
  <2> QED
    BY <2>2, <2>3, <2>5, <2>6, <2>7, NoBlocks, AccountedAsCounted
<1>9. CASE Poll
  BY <1>0, <1>6, <1>9 DEF Poll
<1>10. CASE Outside
  BY <1>6, <1>10 DEF Outside
<1>11. CASE Gone \/ UNCHANGED vars
  BY <1>6, <1>11 DEF Gone, vars
<1> QED
  BY <1>1, <1>2, <1>3, <1>4, <1>5, <1>7, <1>8, <1>9, <1>10, <1>11 DEF Next, Machine

(* The number a program reads with SYSCALL 4 is the memory in use without    *)
(* the lists of children, up to the width of the counter, as long as nothing *)
(* has been freed with another size than it was counted with: the list of a  *)
(* task that ends before its children, and the payload of a message that     *)
(* came without it (vmmalloc, vmcalloc, vmfree and their callers).           *)
THEOREM UsageStaysExact == Spec => []UsageIsExact
<1>1. Init => UsageIsExact
  BY DEF Init, UsageIsExact
<1>2. TypeInv /\ ClientInv /\ Waits /\ OwnerInv /\ UsageIsExact /\ [Next]_vars => UsageIsExact'
  BY ExactStep
<1> QED
  BY <1>1, <1>2, TypeInvariant, ClientInvariant, WaitsInvariant, OwnerInvariant, PTL DEF Spec

=============================================================================
