--------------------------- MODULE CallFramesProofs ---------------------------
(***************************************************************************)
(* Proofs about CallFrames, for stacks of any size, any program memory,    *)
(* any values and any sizes of variables.                                  *)
(***************************************************************************)
EXTENDS CallFrames, ListLemmas, TLAPS

StackOfWords ==
  [data : [0 .. STACK_SIZE - 1 -> Nat], size : {STACK_SIZE}, sp : Nat, bp : Nat]

(* The bases ascend: FramesLinked says it of neighbours, and the proofs need *)
(* it of calls further apart.                                                *)
Ascending == \A j, k \in 1 .. Len(bases) : j < k => bases[j] + 2 <= bases[k]

IInv ==
  /\ TypeOK
  /\ stack \in StackOfWords
  /\ Ascending
  /\ FramesLinked

-----------------------------------------------------------------------------
(* What stack.c does to a stack of words. *)

LEMMA WrittenWord ==
  ASSUME NEW s \in StackOfWords, NEW w \in Nat, NEW a \in Nat, a < STACK_SIZE
  PROVE  /\ WriteAt(s, <<w>>, a) \in StackOfWords
         /\ WriteAt(s, <<w>>, a).sp = IF a + 1 > s.sp THEN a + 1 ELSE s.sp
         /\ WriteAt(s, <<w>>, a).bp = s.bp
         /\ \A i \in 0 .. STACK_SIZE - 1 :
              WriteAt(s, <<w>>, a).data[i] = IF i = a THEN w ELSE s.data[i]
<1> DEFINE v == <<w>>
           d == [i \in DOMAIN s.data |->
                   IF i \in a .. a + Len(v) - 1 THEN v[Len(v) - (i - a)] ELSE s.data[i]]
           p == IF a + Len(v) > s.sp THEN a + Len(v) ELSE s.sp
<1>1. Len(v) = 1 /\ v[1] = w
  OBVIOUS
<1>2. DOMAIN s.data = 0 .. STACK_SIZE - 1 /\ STACK_SIZE \in Nat
  BY CallFramesAssumption DEF StackOfWords
<1>3. \A i \in 0 .. STACK_SIZE - 1 : d[i] = IF i = a THEN w ELSE s.data[i]
  <2> TAKE i \in 0 .. STACK_SIZE - 1
  <2> HIDE DEF v
  <2>1. d[i] = IF i \in a .. a THEN v[1 - (i - a)] ELSE s.data[i]
    BY <1>1, <1>2
  <2>2. i \in a .. a <=> i = a
    BY <1>2
  <2> QED
    BY <1>1, <2>1, <2>2
<1>4. d \in [0 .. STACK_SIZE - 1 -> Nat]
  <2>1. \A i \in 0 .. STACK_SIZE - 1 : d[i] \in Nat
    BY <1>3 DEF StackOfWords
  <2> QED
    BY <1>2, <2>1
<1>5. p = (IF a + 1 > s.sp THEN a + 1 ELSE s.sp) /\ p \in Nat
  BY <1>1 DEF StackOfWords
<1>6. WriteAt(s, v, a) = [s EXCEPT !.data = d, !.sp = p]
  BY DEF WriteAt
<1> HIDE DEF d, p, v
<1>7. /\ [s EXCEPT !.data = d, !.sp = p] \in StackOfWords
      /\ [s EXCEPT !.data = d, !.sp = p].data = d
      /\ [s EXCEPT !.data = d, !.sp = p].sp = p
      /\ [s EXCEPT !.data = d, !.sp = p].bp = s.bp
  BY <1>4, <1>5 DEF StackOfWords
<1> QED
  BY <1>3, <1>5, <1>6, <1>7 DEF v

LEMMA WordRead ==
  ASSUME NEW s \in StackOfWords, NEW a \in Nat, a < STACK_SIZE
  PROVE  ReadAt(s, 1, a)[1] = s.data[a] /\ s.data[a] \in Nat
<1>1. 1 \in 1 .. 1 /\ a + 1 - 1 = a
  OBVIOUS
<1>2. ReadAt(s, 1, a)[1] = s.data[a]
  BY <1>1 DEF ReadAt
<1>3. a \in 0 .. STACK_SIZE - 1
  BY CallFramesAssumption
<1> QED
  BY <1>2, <1>3 DEF StackOfWords

(* The list of calls. *)
LEMMA BasesProperties ==
  ASSUME TypeOK
  PROVE  /\ Len(bases) \in Nat \ {0}
         /\ Last(bases) = bases[Len(bases)]
         /\ \A k \in 1 .. Len(bases) : bases[k] \in Nat
<1>1. bases \in Seq(Nat) /\ bases # <<>>
  BY DEF TypeOK
<1>2. Len(bases) \in Nat \ {0}
  BY <1>1, LastProperties
<1> QED
  BY <1>1, <1>2, ElementOfSeq DEF Last

-----------------------------------------------------------------------------

LEMMA InitIInv == Init => IInv
<1> SUFFICES ASSUME Init PROVE IInv
  OBVIOUS
<1>1. STACK_SIZE \in Nat /\ STACK_SIZE > 0 /\ 0 \in Address
  BY CallFramesAssumption
<1>2. /\ stack \in StackOfWords /\ stack.sp = 0 /\ stack.bp = 0
      /\ stack.data \in [0 .. STACK_SIZE - 1 -> Nat] /\ stack.size = STACK_SIZE
  BY <1>1 DEF Init, stack_create, StackOfWords
<1>3. /\ bases \in Seq(Nat) \ {<<>>} /\ Len(bases) = 1 /\ bases[1] = 0 /\ Last(bases) = 0
  BY DEF Init, Last
<1>4. TypeOK
  BY <1>1, <1>2, <1>3 DEF Init, TypeOK
<1>5. Ascending
  BY <1>3 DEF Ascending
<1>6. FramesLinked
  BY <1>1, <1>2, <1>3 DEF FramesLinked
<1> QED
  BY <1>2, <1>4, <1>5, <1>6 DEF IInv

(* Steps that leave the calls and the words below the running one's base as  *)
(* they are.                                                                 *)
LEMMA BelowUntouched ==
  ASSUME IInv, stack' \in StackOfWords, UNCHANGED bases,
         ip' \in Address, operand' \in Nat, status' \in {"running", "failed", "undefined"},
         stack'.bp = stack.bp, stack'.sp >= stack.bp,
         \A k \in 2 .. Len(bases) : /\ stack'.data[bases[k] - 1] = stack.data[bases[k] - 1]
                                    /\ stack'.data[bases[k] - 2] = stack.data[bases[k] - 2]
  PROVE  IInv'
<1>1. TypeOK'
  BY DEF IInv, TypeOK, StackOfWords
<1>2. Ascending'
  BY DEF IInv, Ascending
<1>3. FramesLinked'
  BY DEF IInv, FramesLinked
<1> QED
  BY <1>1, <1>2, <1>3 DEF IInv

(* The frame of a call: two words above what was the top. *)
LEMMA FrameMade ==
  ASSUME IInv, NEW back \in Address, CanPush(stack, 2)
  PROVE  LET s == NewFrame(back) IN
         /\ stack.sp \in Nat /\ stack.sp + 1 < STACK_SIZE
         /\ s \in StackOfWords
         /\ s.sp = stack.sp + 2 /\ s.bp = stack.sp + 2
         /\ \A i \in 0 .. STACK_SIZE - 1 :
              s.data[i] = IF i = stack.sp + 1 THEN stack.bp
                          ELSE IF i = stack.sp THEN back ELSE stack.data[i]
<1> DEFINE a == stack.sp
           s == Push(stack, <<back>>)
           t == Push(s, <<stack.bp>>)
           u == [t EXCEPT !.bp = t.sp]
<1>0. /\ STACK_SIZE \in Nat /\ Address \subseteq Nat /\ back \in Nat
      /\ stack \in StackOfWords /\ stack.sp \in Nat /\ stack.bp \in Nat
      /\ stack.size = STACK_SIZE
  BY CallFramesAssumption DEF IInv, StackOfWords
<1>1. NewFrame(back) = u
  BY DEF NewFrame
<1>2. a \in Nat /\ a + 1 < STACK_SIZE
  BY <1>0 DEF CanPush, CanWriteAt
<1>3. /\ s \in StackOfWords /\ s.sp = a + 1 /\ s.bp = stack.bp
      /\ \A i \in 0 .. STACK_SIZE - 1 : s.data[i] = IF i = a THEN back ELSE stack.data[i]
  <2>1. s = WriteAt(stack, <<back>>, a)
    BY DEF Push
  <2> HIDE DEF s
  <2> QED
    BY <1>0, <1>2, <2>1, WrittenWord
<1>4. /\ t \in StackOfWords /\ t.sp = a + 2 /\ t.bp = stack.bp
      /\ \A i \in 0 .. STACK_SIZE - 1 :
           t.data[i] = IF i = a + 1 THEN stack.bp ELSE s.data[i]
  <2> DEFINE w == stack.bp
             c == a + 1
  <2>1. t = WriteAt(s, <<w>>, c)
    BY <1>3 DEF Push
  <2>2. w \in Nat /\ c \in Nat /\ c < STACK_SIZE /\ s \in StackOfWords
    BY <1>0, <1>2, <1>3
  <2>3. (IF c + 1 > s.sp THEN c + 1 ELSE s.sp) = a + 2
    BY <1>2, <1>3
  <2>4. s.bp = stack.bp
    BY <1>3
  <2> HIDE DEF s, t, w, c
  <2>5. /\ t \in StackOfWords
        /\ t.sp = IF c + 1 > s.sp THEN c + 1 ELSE s.sp
        /\ t.bp = s.bp
        /\ \A i \in 0 .. STACK_SIZE - 1 : t.data[i] = IF i = c THEN w ELSE s.data[i]
    BY <2>1, <2>2, WrittenWord
  <2> QED
    BY <2>3, <2>4, <2>5 DEF w, c
<1> HIDE DEF s, t
<1>5. /\ u \in StackOfWords /\ u.sp = a + 2 /\ u.bp = a + 2 /\ u.data = t.data
  BY <1>4 DEF StackOfWords
<1> HIDE DEF u
<1> QED
  BY <1>1, <1>2, <1>3, <1>4, <1>5

LEMMA UnwoundStack ==
  ASSUME IInv
  PROVE  /\ Unwound \in StackOfWords
         /\ Unwound.sp = stack.bp /\ Unwound.bp = stack.bp /\ Unwound.data = stack.data
BY DEF IInv, StackOfWords, Unwound

(* A return drops the innermost frame, and takes from it the base pointer of *)
(* the caller and the address to go on at.                                   *)
LEMMA FrameDropped ==
  ASSUME IInv, Return, 2 <= stack.bp
  PROVE  LET n == Len(bases) IN
         /\ n >= 2 /\ bases[n] = stack.bp
         /\ stack' \in StackOfWords
         /\ stack'.sp = stack.bp - 2 /\ stack'.bp = bases[n - 1]
         /\ stack'.data = stack.data
         /\ ip' = stack.data[stack.bp - 2] /\ ip' \in Address
         /\ bases' \in Seq(Nat) /\ Len(bases') = n - 1
         /\ \A k \in 1 .. n - 1 : bases'[k] = bases[k]
         /\ UNCHANGED <<operand, status>>
<1> DEFINE n == Len(bases)
           b == stack.bp
           s == Unwound
           t == Pop(s, 1)
<1>0. /\ STACK_SIZE \in Nat /\ Address \subseteq Nat
      /\ stack \in StackOfWords /\ stack.sp \in Nat /\ b \in Nat
  BY CallFramesAssumption DEF IInv, StackOfWords
<1>1. /\ s \in StackOfWords /\ s.sp = b /\ s.bp = b /\ s.data = stack.data
  BY UnwoundStack
<1>2. /\ stack' = [Pop(t, 1) EXCEPT !.bp = TopOf(s, 1)[1]]
      /\ ip' = TopOf(t, 1)[1]
      /\ bases' = Front(bases)
      /\ UNCHANGED <<operand, status>>
  BY <1>1 DEF Return, CanPop
<1>3. /\ t \in StackOfWords /\ t.sp = b - 1 /\ t.bp = b /\ t.data = stack.data
  <2>1. b - 1 \in Nat /\ t = [s EXCEPT !.sp = @ - 1]
    BY <1>0 DEF Pop
  <2> HIDE DEF s, t
  <2> QED
    BY <1>1, <2>1 DEF StackOfWords
<1> HIDE DEF s, t
<1>4. /\ n \in Nat \ {0} /\ Last(bases) = bases[n]
      /\ \A k \in 1 .. n : bases[k] \in Nat
  BY BasesProperties DEF IInv
<1>5. /\ bases[1] = 0 /\ b = bases[n] /\ b <= STACK_SIZE
      /\ \A k \in 2 .. n : /\ stack.data[bases[k] - 1] = bases[k - 1]
                           /\ stack.data[bases[k] - 2] \in Address
  BY <1>4 DEF IInv, FramesLinked
<1>6. n >= 2
  BY <1>0, <1>4, <1>5
<1>7. TopOf(s, 1)[1] = bases[n - 1]
  <2>1. TopOf(s, 1) = ReadAt(s, 1, b - 1) /\ b - 1 \in Nat /\ b - 1 < STACK_SIZE
    BY <1>0, <1>1, <1>5 DEF TopOf
  <2>2. n \in 2 .. n
    BY <1>4, <1>6
  <2>3. stack.data[b - 1] = bases[n - 1]
    BY <1>5, <2>2
  <2> QED
    BY <1>1, <2>1, <2>3, WordRead
<1>8. TopOf(t, 1)[1] = stack.data[b - 2] /\ stack.data[b - 2] \in Address
  <2>1. TopOf(t, 1) = ReadAt(t, 1, b - 1 - 1) /\ b - 1 - 1 = b - 2
          /\ b - 2 \in Nat /\ b - 2 < STACK_SIZE
    BY <1>0, <1>3, <1>5 DEF TopOf
  <2> QED
    BY <1>3, <1>4, <1>5, <1>6, <2>1, WordRead
<1>9. /\ stack' \in StackOfWords /\ stack'.sp = b - 2 /\ stack'.bp = bases[n - 1]
      /\ stack'.data = stack.data
  <2>1. b - 2 \in Nat /\ bases[n - 1] \in Nat /\ b - 1 - 1 = b - 2
    BY <1>0, <1>4, <1>6
  <2> QED
    BY <1>2, <1>3, <1>7, <2>1 DEF StackOfWords, Pop
<1>10. /\ bases' \in Seq(Nat) /\ Len(bases') = n - 1
       /\ \A k \in 1 .. n - 1 : bases'[k] = bases[k]
  <2>1. bases \in Seq(Nat) /\ bases # <<>>
    BY DEF IInv, TypeOK
  <2> QED
    BY <1>2, <2>1, FrontProperties
<1> QED
  BY <1>2, <1>5, <1>6, <1>8, <1>9, <1>10

(* A call, of a function or of a message handler. *)
LEMMA CallPreserves ==
  ASSUME IInv, status = "running", NEW address \in Address, NEW back \in Address,
         CallAddress(address, back)
  PROVE  IInv'
<1>0. /\ STACK_SIZE \in Nat /\ Address \subseteq Nat /\ back \in Nat
      /\ stack \in StackOfWords /\ stack.sp \in Nat /\ stack.bp \in Nat
      /\ stack.size = STACK_SIZE
  BY CallFramesAssumption DEF IInv, StackOfWords
<1>1. CASE ~CanPush(stack, 2)
  <2>1. UNCHANGED <<ip, stack, operand, bases>> /\ status' = "failed"
    BY <1>1 DEF CallAddress, Exit
  <2> QED
    BY <2>1, BelowUntouched DEF IInv, TypeOK, FramesLinked
<1>2. CASE CanPush(stack, 2)
  <2> DEFINE n == Len(bases)
             a == stack.sp
  <2>1. /\ stack' = NewFrame(back)
        /\ bases' = Append(bases, a + 2)
        /\ ip' = address /\ operand' = operand /\ status' = status
    BY <1>2 DEF CallAddress
  <2>2. a \in Nat /\ a + 1 < STACK_SIZE
    BY <1>2, FrameMade
  <2>3. /\ stack' \in StackOfWords /\ stack'.sp = a + 2 /\ stack'.bp = a + 2
        /\ \A i \in 0 .. STACK_SIZE - 1 :
             stack'.data[i] = IF i = a + 1 THEN stack.bp
                              ELSE IF i = a THEN back ELSE stack.data[i]
    BY <1>2, <2>1, FrameMade
  <2>6. /\ stack'.data[a + 1] = stack.bp
        /\ stack'.data[a] = back
        /\ \A i \in 0 .. a - 1 : stack'.data[i] = stack.data[i]
    BY <1>0, <2>2, <2>3
  <2>7. /\ n \in Nat \ {0} /\ Last(bases) = bases[n]
        /\ \A k \in 1 .. n : bases[k] \in Nat
    BY BasesProperties DEF IInv
  <2>8. /\ bases' \in Seq(Nat) /\ bases' # <<>> /\ Len(bases') = n + 1
        /\ bases'[n + 1] = a + 2
        /\ \A k \in 1 .. n : bases'[k] = bases[k]
    <3>1. bases \in Seq(Nat) /\ a + 2 \in Nat
      BY <2>2 DEF IInv, TypeOK
    <3> QED
      BY <2>1, <2>7, <3>1, AppendProperties
  <2> HIDE DEF n, a
  <2>9. /\ bases[1] = 0 /\ stack.bp = bases[n] /\ stack.bp <= a
        /\ \A k \in 2 .. n : /\ bases[k] >= bases[k - 1] + 2
                             /\ stack.data[bases[k] - 1] = bases[k - 1]
                             /\ stack.data[bases[k] - 2] \in Address
        /\ \A j, k \in 1 .. n : j < k => bases[j] + 2 <= bases[k]
    BY <2>7 DEF IInv, FramesLinked, Ascending, n, a
  <2>10. TypeOK'
    BY <2>1, <2>3, <2>8 DEF IInv, TypeOK, StackOfWords
  <2>11. \A k \in 1 .. n : bases[k] <= stack.bp
    BY <1>0, <2>7, <2>9
  <2>12. Ascending'
    <3> SUFFICES ASSUME NEW j \in 1 .. n + 1, NEW k \in 1 .. n + 1, j < k
                 PROVE  bases'[j] + 2 <= bases'[k]
      BY <2>8 DEF Ascending
    <3>1. j \in 1 .. n /\ bases'[j] = bases[j]
      BY <2>7, <2>8
    <3>2. CASE k = n + 1
      <4>1. bases[j] \in Nat /\ bases[j] <= stack.bp
        BY <2>7, <2>11, <3>1, Zenon
      <4>2. bases'[k] = a + 2
        BY <2>8, <3>2, Zenon
      <4>3. a \in Nat /\ stack.bp \in Nat /\ stack.bp <= a
        BY <1>0, <2>2, <2>9, Zenon
      <4> DEFINE x == bases[j]
                 y == stack.bp
      <4>4. x + 2 <= a + 2
        <5> HIDE DEF x, y
        <5>1. x \in Nat /\ y \in Nat /\ a \in Nat /\ x <= y /\ y <= a
          BY <4>1, <4>3 DEF x, y
        <5> QED
          BY <5>1
      <4> QED
        BY <3>1, <4>2, <4>4
    <3>3. CASE k # n + 1
      BY <2>7, <2>8, <2>9, <3>1, <3>3
    <3> QED
      BY <3>2, <3>3
  <2>13. FramesLinked'
    <3>1. Last(bases') = a + 2 /\ bases'[1] = 0
      <4>1. 1 \in 1 .. n
        BY <2>7
      <4> QED
        BY <2>8, <2>9, <4>1, Zenon DEF Last
    <3>2. ASSUME NEW k \in 2 .. n + 1
          PROVE  /\ bases'[k] >= bases'[k - 1] + 2
                 /\ stack'.data[bases'[k] - 1] = bases'[k - 1]
                 /\ stack'.data[bases'[k] - 2] \in Address
      <4>1. CASE k = n + 1
        <5>1. bases'[k] = a + 2 /\ bases'[k - 1] = stack.bp
          BY <2>7, <2>8, <2>9, <4>1
        <5>2. a + 2 - 1 = a + 1 /\ a + 2 - 2 = a
          BY <2>2
        <5> QED
          BY <1>0, <2>2, <2>6, <2>9, <5>1, <5>2
      <4>2. CASE k # n + 1
        <5>1. k \in 2 .. n /\ k \in 1 .. n /\ k - 1 \in 1 .. n /\ 1 \in 1 .. n
          BY <2>7, <4>2
        <5>2. bases'[k] = bases[k] /\ bases'[k - 1] = bases[k - 1]
          BY <2>8, <5>1
        <5>3. bases[k] - 1 \in 0 .. a - 1 /\ bases[k] - 2 \in 0 .. a - 1
          BY <1>0, <2>2, <2>7, <2>9, <2>11, <5>1
        <5> QED
          BY <2>6, <2>9, <5>1, <5>2, <5>3
      <4> QED
        BY <4>1, <4>2
    <3> QED
      BY <1>0, <2>2, <2>3, <2>8, <3>1, <3>2 DEF FramesLinked
  <2> QED
    BY <2>3, <2>10, <2>12, <2>13 DEF IInv
<1> QED
  BY <1>1, <1>2

LEMMA ReturnPreserves == IInv /\ Return => IInv'
<1> SUFFICES ASSUME IInv, Return PROVE IInv'
  OBVIOUS
<1> DEFINE n == Len(bases)
           b == stack.bp
<1>0. STACK_SIZE \in Nat /\ stack \in StackOfWords /\ b \in Nat
  BY CallFramesAssumption DEF IInv, StackOfWords
<1>1. CASE ~(2 <= b)
  <2>1. UNCHANGED <<ip, stack, operand, bases>> /\ status' = "failed"
    BY <1>1, UnwoundStack DEF Return, Exit, CanPop
  <2> QED
    BY <2>1, BelowUntouched DEF IInv, TypeOK, FramesLinked
<1>2. CASE 2 <= b
  <2>1. /\ n >= 2
        /\ stack' \in StackOfWords /\ stack'.sp = b - 2 /\ stack'.bp = bases[n - 1]
        /\ stack'.data = stack.data
        /\ ip' \in Address
        /\ bases' \in Seq(Nat) /\ Len(bases') = n - 1
        /\ \A k \in 1 .. n - 1 : bases'[k] = bases[k]
        /\ UNCHANGED <<operand, status>>
    BY <1>2, FrameDropped
  <2>2. /\ n \in Nat \ {0} /\ Last(bases) = bases[n]
        /\ \A k \in 1 .. n : bases[k] \in Nat
    BY BasesProperties DEF IInv
  <2>3. /\ bases[1] = 0 /\ b = bases[n] /\ b <= STACK_SIZE
        /\ \A k \in 2 .. n : /\ bases[k] >= bases[k - 1] + 2
                             /\ stack.data[bases[k] - 1] = bases[k - 1]
                             /\ stack.data[bases[k] - 2] \in Address
        /\ \A j, k \in 1 .. n : j < k => bases[j] + 2 <= bases[k]
    BY <2>2 DEF IInv, FramesLinked, Ascending
  <2> HIDE DEF n, b
  <2>4. bases' # <<>> /\ Last(bases') = bases[n - 1] /\ bases'[1] = 0
    <3>1. n - 1 \in 1 .. n - 1 /\ 1 \in 1 .. n - 1 /\ n - 1 # 0
      BY <2>1, <2>2
    <3>2. Len(bases') = n - 1 /\ bases'[n - 1] = bases[n - 1] /\ bases'[1] = bases[1]
      BY <2>1, <3>1
    <3>3. bases' # <<>>
      BY <3>1, <3>2, EmptySeq
    <3> QED
      BY <2>3, <3>2, <3>3 DEF Last
  <2>5. TypeOK'
    BY <2>1, <2>4 DEF IInv, TypeOK, StackOfWords
  <2>6. Ascending'
    <3> SUFFICES ASSUME NEW j \in 1 .. n - 1, NEW k \in 1 .. n - 1, j < k
                 PROVE  bases'[j] + 2 <= bases'[k]
      BY <2>1 DEF Ascending
    <3>1. j \in 1 .. n /\ k \in 1 .. n
      BY <2>2
    <3>2. bases'[j] = bases[j] /\ bases'[k] = bases[k]
      BY <2>1, Zenon
    <3>3. bases[j] + 2 <= bases[k]
      BY <2>3, <3>1, Zenon
    <3> QED
      BY <3>2, <3>3
  <2>7. FramesLinked'
    <3>1. /\ stack'.bp = Last(bases') /\ bases'[1] = 0
          /\ stack'.bp <= stack'.sp /\ stack'.bp <= STACK_SIZE
      <4> DEFINE x == bases[n - 1]
      <4>1. n - 1 \in 1 .. n /\ n \in 1 .. n /\ n - 1 < n
        BY <2>1, <2>2
      <4>2. x \in Nat
        BY <2>2, <4>1
      <4>3. x + 2 <= b /\ b <= STACK_SIZE
        BY <2>3, <4>1
      <4>4. /\ stack'.bp = x /\ Last(bases') = x /\ bases'[1] = 0
            /\ stack'.sp = b - 2 /\ b \in Nat
        BY <1>0, <2>1, <2>4, Zenon
      <4> HIDE DEF x
      <4>5. x <= b - 2 /\ x <= STACK_SIZE
        BY <1>0, <4>2, <4>3, <4>4
      <4> QED
        BY <4>4, <4>5
    <3>2. ASSUME NEW k \in 2 .. n - 1
          PROVE  /\ bases'[k] >= bases'[k - 1] + 2
                 /\ stack'.data[bases'[k] - 1] = bases'[k - 1]
                 /\ stack'.data[bases'[k] - 2] \in Address
      <4>1. k \in 2 .. n /\ k \in 1 .. n - 1 /\ k - 1 \in 1 .. n - 1
        BY <2>2
      <4> QED
        BY <2>1, <2>3, <4>1
    <3> QED
      BY <2>1, <3>1, <3>2 DEF FramesLinked
  <2> QED
    BY <2>1, <2>5, <2>6, <2>7 DEF IInv
<1> QED
  BY <1>1, <1>2

(* Neither the running function's variables nor those of the task's own code *)
(* are words that link the frames.                                           *)
LEMMA VariablesAreNotLinks ==
  ASSUME IInv, NEW a \in Locals \cup OfTask
  PROVE  /\ a \in Nat /\ a < stack.sp
         /\ \A k \in 2 .. Len(bases) : a # bases[k] - 1 /\ a # bases[k] - 2
<1> DEFINE n == Len(bases)
<1>1. /\ n \in Nat \ {0} /\ Last(bases) = bases[n]
      /\ \A k \in 1 .. n : bases[k] \in Nat
  BY BasesProperties DEF IInv
<1>2. /\ stack.sp \in Nat /\ stack.bp \in Nat /\ stack.bp = bases[n] /\ stack.bp <= stack.sp
      /\ \A j, k \in 1 .. n : j < k => bases[j] + 2 <= bases[k]
      /\ bases[1] = 0
  BY <1>1 DEF IInv, TypeOK, FramesLinked, Ascending
<1> HIDE DEF n
<1>3. CASE a \in Locals
  <2>1. PICK o \in 0 .. stack.sp - stack.bp - 1 : a = stack.bp + o
    BY <1>3 DEF Locals, Variable
  <2>2. a \in Nat /\ a >= stack.bp /\ a < stack.sp
    BY <1>2, <2>1
  <2>3. \A k \in 2 .. n : bases[k] <= stack.bp /\ bases[k] \in Nat
    BY <1>1, <1>2
  <2> QED
    BY <1>2, <2>2, <2>3 DEF n
<1>4. CASE a \in OfTask
  <2>1. CASE n = 1
    BY <1>2, <1>4, <2>1 DEF OfTask, n
  <2>2. CASE n # 1
    <3>1. bases[2] \in Nat /\ bases[2] >= 2 /\ bases[2] <= stack.bp
      BY <1>1, <1>2, <2>2
    <3>2. a \in Nat /\ a < bases[2] - 2
      BY <1>4, <2>2, <3>1 DEF OfTask, n
    <3>3. \A k \in 2 .. n : bases[2] <= bases[k] /\ bases[k] \in Nat
      BY <1>1, <1>2, <2>2
    <3> QED
      BY <1>2, <3>1, <3>2, <3>3 DEF n
  <2> QED
    BY <2>1, <2>2
<1> QED
  BY <1>3, <1>4

LEMMA ReadPreserves ==
  ASSUME IInv, NEW a \in Locals \cup OfTask, Read(a)
  PROVE  IInv'
<1>0. stack \in StackOfWords /\ a \in Nat /\ stack.sp >= stack.bp
  BY VariablesAreNotLinks DEF IInv, FramesLinked, TypeOK
<1>1. CASE a < STACK_SIZE
  <2>1. operand' \in Nat
    BY <1>0, <1>1, WordRead DEF Read
  <2> QED
    BY <1>0, <1>1, <2>1, BelowUntouched DEF Read, IInv, TypeOK
<1>2. CASE ~(a < STACK_SIZE)
  BY <1>0, <1>2, BelowUntouched DEF Read, Exit, IInv, TypeOK
<1> QED
  BY <1>1, <1>2

LEMMA WritePreserves ==
  ASSUME IInv, NEW a \in Locals \cup OfTask, Write(a)
  PROVE  IInv'
<1>0. /\ stack \in StackOfWords /\ a \in Nat /\ a < stack.sp /\ stack.sp >= stack.bp
      /\ stack.sp \in Nat /\ stack.bp \in Nat /\ stack.size = STACK_SIZE
      /\ STACK_SIZE \in Nat /\ operand \in Nat
  BY VariablesAreNotLinks, CallFramesAssumption DEF IInv, FramesLinked, TypeOK
<1>1. CASE CanWriteAt(stack, 1, a)
  <2>1. a < STACK_SIZE
    BY <1>0, <1>1 DEF CanWriteAt
  <2>2. /\ stack' = WriteAt(stack, <<operand>>, a) /\ ip' \in Address
        /\ UNCHANGED <<operand, status, bases>>
    BY <1>1 DEF Write
  <2>3. /\ stack' \in StackOfWords /\ stack'.sp = stack.sp /\ stack'.bp = stack.bp
        /\ \A i \in 0 .. STACK_SIZE - 1 :
             stack'.data[i] = IF i = a THEN operand ELSE stack.data[i]
    BY <1>0, <2>1, <2>2, WrittenWord
  <2>4. \A k \in 2 .. Len(bases) : /\ stack'.data[bases[k] - 1] = stack.data[bases[k] - 1]
                                   /\ stack'.data[bases[k] - 2] = stack.data[bases[k] - 2]
    <3> TAKE k \in 2 .. Len(bases)
    <3>1. a # bases[k] - 1 /\ a # bases[k] - 2
      BY VariablesAreNotLinks
    <3>2. bases[k] \in Nat /\ bases[k] >= 2 /\ bases[k] <= STACK_SIZE
      <4>1. /\ Len(bases) \in Nat \ {0} /\ Last(bases) = bases[Len(bases)]
            /\ \A j \in 1 .. Len(bases) : bases[j] \in Nat
        BY BasesProperties DEF IInv
      <4>2. /\ \A i, j \in 1 .. Len(bases) : i < j => bases[i] + 2 <= bases[j]
            /\ bases[Len(bases)] <= STACK_SIZE
        BY <4>1 DEF IInv, Ascending, FramesLinked
      <4> DEFINE m == Len(bases)
                 x == bases[1]
                 y == bases[k]
                 z == bases[m]
      <4>3. m \in Nat \ {0}
        BY <4>1
      <4>4. k \in 1 .. m /\ 1 \in 1 .. m /\ m \in 1 .. m /\ 1 < k /\ (k = m \/ k < m)
        <5>1. k \in 2 .. m
          OBVIOUS
        <5> HIDE DEF m
        <5> QED
          BY <4>3, <5>1
      <4>5. x \in Nat /\ y \in Nat /\ z \in Nat /\ x + 2 <= y /\ z <= STACK_SIZE
        BY <4>1, <4>2, <4>4
      <4>6. y = z \/ y + 2 <= z
        BY <4>2, <4>4
      <4> HIDE DEF x, y, z
      <4>7. y >= 2 /\ y <= STACK_SIZE
        BY <1>0, <4>5, <4>6
      <4> QED
        BY <4>5, <4>7 DEF y
    <3>3. bases[k] - 1 \in 0 .. STACK_SIZE - 1 /\ bases[k] - 2 \in 0 .. STACK_SIZE - 1
      <4> DEFINE y == bases[k]
      <4>1. y \in Nat /\ y >= 2 /\ y <= STACK_SIZE
        BY <3>2
      <4> HIDE DEF y
      <4>2. y - 1 \in 0 .. STACK_SIZE - 1 /\ y - 2 \in 0 .. STACK_SIZE - 1
        BY <1>0, <4>1
      <4> QED
        BY <4>2 DEF y
    <3> QED
      BY <2>3, <3>1, <3>3
  <2> QED
    BY <1>0, <2>2, <2>3, <2>4, BelowUntouched DEF IInv, TypeOK
<1>2. CASE ~CanWriteAt(stack, 1, a)
  BY <1>0, <1>2, BelowUntouched DEF Write, Exit, IInv, TypeOK
<1> QED
  BY <1>1, <1>2

LEMMA StepPreserves == IInv /\ [Next]_vars => IInv'
<1> SUFFICES ASSUME IInv, [Next]_vars PROVE IInv'
  OBVIOUS
<1>0. /\ stack \in StackOfWords /\ stack.sp >= stack.bp
      /\ stack.sp \in Nat /\ stack.bp \in Nat /\ ip \in Address /\ operand \in Nat
      /\ status \in {"running", "failed", "undefined"}
  BY DEF IInv, FramesLinked, TypeOK
<1>1. CASE Execute
  BY <1>0, <1>1, BelowUntouched, CallFramesAssumption DEF Execute
<1>2. CASE Call
  BY <1>2, CallPreserves DEF Call
<1>3. CASE HandleMessage
  BY <1>0, <1>3, CallPreserves, CallFramesAssumption DEF HandleMessage
<1>4. CASE Return
  BY <1>4, ReturnPreserves
<1>5. CASE AllocLocal
  <2>1. PICK m \in AllocSizes : stack' = [stack EXCEPT !.sp = @ + m]
    BY <1>5 DEF AllocLocal
  <2>2. m \in Nat
    BY CallFramesAssumption
  <2>3. /\ stack' \in StackOfWords /\ stack'.bp = stack.bp /\ stack'.data = stack.data
        /\ stack'.sp = stack.sp + m
    BY <1>0, <2>1, <2>2 DEF StackOfWords
  <2>4. stack'.sp >= stack.bp
    BY <1>0, <2>2, <2>3
  <2> QED
    BY <1>0, <1>5, <2>3, <2>4, BelowUntouched DEF AllocLocal
<1>6. CASE FreeLocal
  <2>1. stack.sp > stack.bp /\ stack.sp - 1 \in Nat
    BY <1>0, <1>6 DEF FreeLocal
  <2>2. /\ stack' \in StackOfWords /\ stack'.bp = stack.bp /\ stack'.data = stack.data
        /\ stack'.sp = stack.sp - 1
    BY <1>0, <1>6, <2>1 DEF FreeLocal, Pop, StackOfWords
  <2>3. stack'.sp >= stack.bp
    BY <1>0, <2>1, <2>2
  <2> QED
    BY <1>0, <1>6, <2>2, <2>3, BelowUntouched DEF FreeLocal
<1>7. CASE PushLocal
  BY <1>7, ReadPreserves DEF PushLocal
<1>8. CASE PopLocal
  BY <1>8, WritePreserves DEF PopLocal
<1>9. CASE LoadI16
  BY <1>9, ReadPreserves DEF LoadI16
<1>10. CASE StoreI16
  BY <1>10, WritePreserves DEF StoreI16
<1>11. CASE UNCHANGED vars
  BY <1>0, <1>11, BelowUntouched DEF vars
<1> QED
  BY <1>1, <1>2, <1>3, <1>4, <1>5, <1>6, <1>7, <1>8, <1>9, <1>10, <1>11 DEF Next, Stopped

LEMMA Inductive == Spec => []IInv
BY InitIInv, StepPreserves, PTL DEF Spec

(* Every variable keeps its type, however deep the calls and however large   *)
(* the stack.                                                                *)
THEOREM CallFramesTypeCorrect == Spec => []TypeOK
<1>1. IInv => TypeOK
  BY DEF IInv
<1> QED
  BY <1>1, Inductive, PTL

(* The saved base pointers and return addresses on the stack are those of    *)
(* the calls in progress, whatever message handlers are called between two   *)
(* instructions and whatever is written to variables.                        *)
THEOREM FramesStayLinked == Spec => []FramesLinked
<1>1. IInv => FramesLinked
  BY DEF IInv
<1> QED
  BY <1>1, Inductive, PTL

-----------------------------------------------------------------------------
(* The calls in progress and their variables, read off the array, are those  *)
(* of CallStack.                                                             *)

(* What a cell holds: CallStack is asked for no more of a variable. *)
Content == Word \cup Address \cup 0 .. STACK_SIZE

Cells ==
  /\ operand \in Content
  /\ \A i \in 0 .. STACK_SIZE - 1 : stack.data[i] \in Content

(* The frames of a stack with data d, pointer p and bases q: call k has its  *)
(* variables from its base to the frame of the next one.                     *)
EndOf(q, p, k) == IF k = Len(q) THEN p ELSE q[k + 1] - 2
VarsIn(d, b, e) ==
  [i \in 1 .. e - b |-> IF b + i - 1 < STACK_SIZE THEN d[b + i - 1] ELSE 0]
CallAt(d, b, e, k) ==
  [back |-> IF k = 1 THEN 0 ELSE d[b - 2], locals |-> VarsIn(d, b, e)]
CallsIn(d, q, p) == [k \in DOMAIN q |-> CallAt(d, q[k], EndOf(q, p, k), k)]

CallRecord == [back : Address, locals : Seq(Content)]

LEMMA CallsAreThoseIn ==
  /\ Calls = CallsIn(stack.data, bases, stack.sp)
  /\ Calls' = CallsIn(stack'.data, bases', stack'.sp)
BY DEF Calls, CallsIn, CallAt, VarsIn, VariablesOf, EndOf

LEMMA ZeroIsContent == 0 \in Content /\ Address \subseteq Content
BY CallFramesAssumption DEF Content

Contents(d) == \A i \in 0 .. STACK_SIZE - 1 : d[i] \in Content
AreVariables(v, d, b, e) ==
  /\ v \in Seq(Content)
  /\ Len(v) = e - b
  /\ \A i \in 1 .. e - b : v[i] = IF b + i - 1 < STACK_SIZE THEN d[b + i - 1] ELSE 0

LEMMA VariablesIn ==
  ASSUME NEW d, NEW b \in Nat, NEW e \in Nat, b <= e, Contents(d)
  PROVE  AreVariables(VarsIn(d, b, e), d, b, e)
<1> DEFINE n == e - b
           v == VarsIn(d, b, e)
<1>1. n \in Nat
  OBVIOUS
<1>2. ASSUME NEW i \in 1 .. n
      PROVE  (IF b + i - 1 < STACK_SIZE THEN d[b + i - 1] ELSE 0) \in Content
  <2>1. b + i - 1 \in Nat
    OBVIOUS
  <2>2. b + i - 1 < STACK_SIZE => b + i - 1 \in 0 .. STACK_SIZE - 1
    BY <2>1, CallFramesAssumption
  <2> QED
    BY <2>2, ZeroIsContent DEF Contents
<1>3. v \in [1 .. n -> Content]
  BY <1>2 DEF VarsIn
<1>4. \A i \in 1 .. n : v[i] = IF b + i - 1 < STACK_SIZE THEN d[b + i - 1] ELSE 0
  BY DEF VarsIn
<1> HIDE DEF n, v
<1>5. v \in Seq(Content) /\ Len(v) = n
  BY <1>1, <1>3
<1> QED
  BY <1>4, <1>5 DEF n, v, AreVariables

(* Variables in cells that two arrays agree on. *)
LEMMA SameVariables ==
  ASSUME NEW d, NEW c, NEW b \in Nat, NEW e \in Nat, b <= e,
         \A i \in 0 .. STACK_SIZE - 1 : i \in b .. e - 1 => c[i] = d[i]
  PROVE  VarsIn(c, b, e) = VarsIn(d, b, e)
<1> SUFFICES ASSUME NEW i \in 1 .. e - b, b + i - 1 < STACK_SIZE
             PROVE  c[b + i - 1] = d[b + i - 1]
  BY DEF VarsIn
<1>1. b + i - 1 \in 0 .. STACK_SIZE - 1 /\ b + i - 1 \in b .. e - 1
  BY CallFramesAssumption
<1> QED
  BY <1>1

LEMMA InnerCall ==
  ASSUME NEW d, NEW b, NEW e, NEW k, k # 1
  PROVE  CallAt(d, b, e, k) = [back |-> d[b - 2], locals |-> VarsIn(d, b, e)]
BY DEF CallAt

(* The shape of the list of calls. *)
Framed ==
  /\ Len(bases) \in Nat \ {0}
  /\ DOMAIN bases = 1 .. Len(bases)
  /\ DOMAIN Calls = 1 .. Len(bases)
  /\ Len(Calls) = Len(bases)
  /\ Calls \in Seq(CallRecord)
  /\ \A k \in 1 .. Len(bases) :
       Calls[k] = CallAt(stack.data, bases[k], EndOf(bases, stack.sp, k), k)
  /\ \A k \in 1 .. Len(bases) :
       /\ bases[k] \in Nat /\ EndOf(bases, stack.sp, k) \in Nat
       /\ bases[k] <= EndOf(bases, stack.sp, k)
       /\ EndOf(bases, stack.sp, k) <= stack.sp
  /\ \A k \in 2 .. Len(bases) : 2 <= bases[k] /\ bases[k] <= STACK_SIZE
  /\ \A j, k \in 1 .. Len(bases) : j < k => EndOf(bases, stack.sp, j) + 2 <= bases[k]

LEMMA CallsFramed == IInv /\ Cells => Framed
<1> SUFFICES ASSUME IInv, Cells PROVE Framed
  OBVIOUS
<1> DEFINE n == Len(bases)
           E(k) == EndOf(bases, stack.sp, k)
<1>1. /\ n \in Nat \ {0} /\ Last(bases) = bases[n]
      /\ \A k \in 1 .. n : bases[k] \in Nat
  BY BasesProperties DEF IInv
<1>2. /\ DOMAIN bases = 1 .. n /\ stack.sp \in Nat /\ STACK_SIZE \in Nat
  BY CallFramesAssumption, LenProperties DEF IInv, TypeOK
<1>3. /\ \A j, k \in 1 .. n : j < k => bases[j] + 2 <= bases[k]
      /\ bases[1] = 0 /\ bases[n] <= stack.sp /\ bases[n] <= STACK_SIZE
      /\ \A k \in 2 .. n : stack.data[bases[k] - 2] \in Address
  BY <1>1 DEF IInv, Ascending, FramesLinked
<1> HIDE DEF n
<1>4. \A k \in 1 .. n : bases[k] <= stack.sp /\ bases[k] <= STACK_SIZE
  <2> TAKE k \in 1 .. n
  <2>1. n \in 1 .. n /\ (k = n \/ k < n)
    BY <1>1
  <2>2. bases[k] <= bases[n]
    BY <1>1, <1>3, <2>1
  <2> QED
    BY <1>1, <1>2, <1>3, <2>1, <2>2
<1>5. ASSUME NEW k \in 1 .. n
      PROVE  E(k) \in Nat /\ bases[k] <= E(k) /\ E(k) <= stack.sp
  <2>1. CASE k = n
    BY <1>1, <1>2, <1>4, <2>1 DEF EndOf, n
  <2>2. CASE k # n
    <3>1. k + 1 \in 1 .. n /\ k < k + 1
      BY <1>1, <2>2
    <3>2. bases[k] + 2 <= bases[k + 1] /\ bases[k + 1] \in Nat /\ bases[k + 1] <= stack.sp
      BY <1>1, <1>3, <1>4, <3>1
    <3>3. E(k) = bases[k + 1] - 2
      BY <2>2 DEF EndOf, n
    <3> DEFINE x == bases[k]
               y == bases[k + 1]
               e == E(k)
    <3>4. /\ x \in Nat /\ y \in Nat /\ stack.sp \in Nat
          /\ x + 2 <= y /\ y <= stack.sp /\ e = y - 2
      BY <1>1, <1>2, <3>2, <3>3
    <3> HIDE DEF x, y, e
    <3>5. e \in Nat /\ x <= e /\ e <= stack.sp
      BY <3>4
    <3> QED
      BY <3>5 DEF x, e
  <2> QED
    BY <2>1, <2>2
<1>6. \A k \in 2 .. n : 2 <= bases[k] /\ bases[k] <= STACK_SIZE
  <2> TAKE k \in 2 .. n
  <2>1. k \in 1 .. n /\ 1 \in 1 .. n /\ 1 < k
    BY <1>1
  <2> QED
    BY <1>1, <1>3, <1>4, <2>1
<1>12. ASSUME NEW j \in 1 .. n, NEW k \in 1 .. n, j < k
       PROVE  E(j) + 2 <= bases[k]
  <2>1. j # n /\ j + 1 \in 1 .. n /\ (j + 1 = k \/ j + 1 < k)
    BY <1>1, <1>12
  <2>2. bases[j + 1] <= bases[k] /\ bases[j + 1] \in Nat
    BY <1>1, <1>3, <2>1
  <2>3. E(j) = bases[j + 1] - 2
    BY <2>1 DEF EndOf, n
  <2> QED
    BY <1>1, <2>2, <2>3
<1> DEFINE F(k) == CallAt(stack.data, bases[k], E(k), k)
<1>7. ASSUME NEW k \in 1 .. n
      PROVE  F(k) \in CallRecord
  <2>1. VarsIn(stack.data, bases[k], E(k)) \in Seq(Content)
    <3> HIDE DEF E
    <3>1. Contents(stack.data)
      BY DEF Cells, Contents
    <3> QED
      BY <1>1, <1>5, <3>1, VariablesIn DEF AreVariables
  <2>2. (IF k = 1 THEN 0 ELSE stack.data[bases[k] - 2]) \in Address
    BY <1>3, CallFramesAssumption
  <2> QED
    BY <2>1, <2>2 DEF CallAt, CallRecord
<1> HIDE DEF E
<1>8. Calls = [k \in 1 .. n |-> F(k)]
  BY <1>2, CallsAreThoseIn DEF CallsIn, E
<1> HIDE DEF F
<1>9. Calls \in [1 .. n -> CallRecord]
  BY <1>7, <1>8
<1>10. Calls \in Seq(CallRecord) /\ Len(Calls) = n /\ DOMAIN Calls = 1 .. n
  BY <1>1, <1>9
<1>11. \A k \in 1 .. n : Calls[k] = F(k)
  BY <1>8
<1> QED
  BY <1>1, <1>2, <1>5, <1>6, <1>10, <1>11, <1>12 DEF Framed, E, F, n

Promised == Promise!Next \/ UNCHANGED Promise!vars

LEMMA InitCells == Init => Cells
<1> SUFFICES ASSUME Init PROVE Cells
  OBVIOUS
<1>1. STACK_SIZE \in Nat
  BY CallFramesAssumption
<1> QED
  BY <1>1, ZeroIsContent DEF Init, stack_create, Cells

LEMMA InitPromised == Init => Promise!Init
<1> SUFFICES ASSUME Init PROVE Promise!Init
  OBVIOUS
<1>1. /\ Len(bases) = 1 /\ bases[1] = 0 /\ DOMAIN bases = 1 .. 1 /\ stack.sp = 0
      /\ EndOf(bases, 0, 1) = 0
  BY CallFramesAssumption DEF Init, stack_create, EndOf
<1>2. VarsIn(stack.data, 0, 0) = <<>>
  BY DEF VarsIn
<1>3. Calls = [k \in 1 .. 1 |-> CallAt(stack.data, 0, 0, 1)]
  BY <1>1, CallsAreThoseIn DEF CallsIn
<1>4. CallAt(stack.data, 0, 0, 1) = [back |-> 0, locals |-> <<>>]
  BY <1>2 DEF CallAt
<1>5. Calls = << [back |-> 0, locals |-> <<>>] >>
  BY <1>3, <1>4
<1> QED
  BY <1>5 DEF Init, Promise!Init

(* Steps that touch neither the array nor the calls, or stop the task. *)
LEMMA CallsUntouched ==
  ASSUME UNCHANGED <<stack, bases>>
  PROVE  Calls' = Calls
BY DEF Calls, VariablesOf

LEMMA CallsFramedNext == IInv' /\ Cells' => Framed'
BY CallsFramed, PTL

(* A call of the list is as it was if its cells and its return address are. *)
LEMMA CallKept ==
  ASSUME Framed, Framed', NEW k \in 1 .. Len(bases), k \in 1 .. Len(bases'),
         bases'[k] = bases[k],
         EndOf(bases', stack'.sp, k) = EndOf(bases, stack.sp, k),
         \A i \in 0 .. STACK_SIZE - 1 :
           i \in bases[k] .. EndOf(bases, stack.sp, k) - 1 => stack'.data[i] = stack.data[i],
         k # 1 => stack'.data[bases[k] - 2] = stack.data[bases[k] - 2]
  PROVE  Calls'[k] = Calls[k]
<1> DEFINE b == bases[k]
           e == EndOf(bases, stack.sp, k)
           c == stack'.data
           d == stack.data
<1>1. Calls[k] = CallAt(d, b, e, k)
  BY DEF Framed
<1>5. b \in Nat /\ e \in Nat /\ b <= e
  BY DEF Framed
<1>2. Calls'[k] = CallAt(c, b, e, k)
  BY DEF Framed
<1>3. /\ \A i \in 0 .. STACK_SIZE - 1 : i \in b .. e - 1 => c[i] = d[i]
      /\ k # 1 => c[b - 2] = d[b - 2]
  OBVIOUS
<1> HIDE DEF b, c, d, e
<1>7. \A i \in 0 .. STACK_SIZE - 1 : i \in b .. e - 1 => c[i] = d[i]
  BY <1>3, Zenon
<1>6. VarsIn(c, b, e) = VarsIn(d, b, e)
  BY <1>5, <1>7, SameVariables
<1>4. CallAt(c, b, e, k) = CallAt(d, b, e, k)
  BY <1>3, <1>6 DEF CallAt
<1> QED
  BY <1>1, <1>2, <1>4

(* A call of a function or of a message handler adds a call without variables. *)
LEMMA CallPromised ==
  ASSUME IInv, Cells, IInv', NEW address \in Address, NEW back \in Address,
         CallAddress(address, back)
  PROVE  Cells' /\ Promised
<1>1. CASE ~CanPush(stack, 2)
  <2>1. UNCHANGED <<ip, stack, operand, bases>>
    BY <1>1 DEF CallAddress, Exit
  <2> QED
    BY <2>1, CallsUntouched DEF Promised, Promise!vars, Cells
<1>2. CASE CanPush(stack, 2)
  <2> DEFINE n == Len(bases)
             a == stack.sp
             r == [back |-> back, locals |-> <<>>]
  <2>1. /\ stack' = NewFrame(back)
        /\ bases' = Append(bases, a + 2)
        /\ ip' = address /\ operand' = operand
    BY <1>2 DEF CallAddress
  <2>2. /\ a \in Nat /\ a + 1 < STACK_SIZE
        /\ stack'.sp = a + 2
        /\ \A i \in 0 .. STACK_SIZE - 1 :
             stack'.data[i] = IF i = a + 1 THEN stack.bp ELSE IF i = a THEN back ELSE stack.data[i]
    BY <1>2, <2>1, FrameMade
  <2>3. /\ STACK_SIZE \in Nat /\ stack.bp \in 0 .. STACK_SIZE
        /\ bases \in Seq(Nat) /\ a + 2 \in Nat
    BY <2>2, CallFramesAssumption DEF IInv, TypeOK, FramesLinked
  <2>4. Cells'
    <3>1. stack.bp \in Content /\ back \in Content
      BY <2>3, ZeroIsContent DEF Content
    <3> QED
      BY <2>1, <2>2, <3>1 DEF Cells
  <2>5. Framed /\ Framed'
    BY <2>4, CallsFramed, CallsFramedNext
  <2>6. /\ n \in Nat \ {0} /\ Len(bases') = n + 1
        /\ bases'[n + 1] = a + 2
        /\ \A k \in 1 .. n : bases'[k] = bases[k]
    BY <2>1, <2>3, <2>5, AppendProperties DEF Framed
  <2>7. ASSUME NEW k \in 1 .. n
        PROVE  Calls'[k] = Calls[k]
    <3>1. /\ bases[k] \in Nat /\ EndOf(bases, a, k) \in Nat /\ EndOf(bases, a, k) <= a
          /\ bases[k] <= EndOf(bases, a, k)
          /\ k # 1 => 2 <= bases[k]
      BY <2>5, <2>6 DEF Framed
    <3>2. EndOf(bases', stack'.sp, k) = EndOf(bases, a, k)
      <4>1. k # n + 1 /\ EndOf(bases', stack'.sp, k) = bases'[k + 1] - 2
        BY <2>6 DEF EndOf
      <4>2. CASE k = n
        BY <2>2, <2>6, <4>1, <4>2 DEF EndOf
      <4>3. CASE k # n
        <5>1. k + 1 \in 1 .. n
          BY <2>6, <4>3
        <5> QED
          BY <2>6, <4>1, <4>3, <5>1 DEF EndOf
      <4> QED
        BY <4>2, <4>3
    <3>3. \A i \in 0 .. STACK_SIZE - 1 :
            i \in bases[k] .. EndOf(bases, a, k) - 1 => stack'.data[i] = stack.data[i]
      BY <2>2, <3>1
    <3>4. k # 1 => stack'.data[bases[k] - 2] = stack.data[bases[k] - 2]
      <4> SUFFICES ASSUME k # 1
                   PROVE  stack'.data[bases[k] - 2] = stack.data[bases[k] - 2]
        OBVIOUS
      <4>1. bases[k] - 2 \in 0 .. STACK_SIZE - 1 /\ bases[k] - 2 < a
        <5>1. 2 <= bases[k] /\ bases[k] \in Nat /\ bases[k] <= a
          BY <2>2, <3>1
        <5>2. a \in Nat /\ a + 1 < STACK_SIZE /\ STACK_SIZE \in Nat
          BY <2>2, <2>3
        <5> HIDE DEF a
        <5> QED
          BY <5>1, <5>2
      <4> QED
        BY <2>2, <4>1
    <3>5. k \in 1 .. Len(bases') /\ bases'[k] = bases[k]
      BY <2>6
    <3> QED
      BY <2>5, <3>2, <3>3, <3>4, <3>5, CallKept
  <2>8. Calls'[n + 1] = r
    <3> DEFINE m == n + 1
               b == a + 2
               d == stack'.data
               c == Calls'[m]
    <3>1. /\ m \in 1 .. Len(bases')
          /\ EndOf(bases', stack'.sp, m) = b
      BY <2>2, <2>6 DEF EndOf
    <3>2. c = CallAt(d, b, b, m)
      BY <2>5, <2>6, <3>1 DEF Framed
    <3>3. VarsIn(d, b, b) = <<>>
      BY <2>2 DEF VarsIn
    <3>4. d[b - 2] = back
      <4>1. a \in 0 .. STACK_SIZE - 1 /\ a # a + 1 /\ b - 2 = a
        <5>1. a \in Nat /\ a + 1 < STACK_SIZE /\ STACK_SIZE \in Nat
          BY <2>2, <2>3
        <5> HIDE DEF a
        <5> QED
          BY <5>1 DEF b
      <4>2. stack'.data[a] = back
        BY <2>2, <4>1, Zenon
      <4> QED
        BY <4>1, <4>2
    <3>5. m # 1
      BY <2>6
    <3> HIDE DEF m, b, d, c
    <3>6. c = r
      BY <3>2, <3>3, <3>4, <3>5, InnerCall
    <3> QED
      BY <3>6 DEF c, m
  <2>9. Calls' = Append(Calls, r)
    <3> DEFINE c == Calls
               e == Calls'
    <3>1. r \in CallRecord
      BY EmptySeq DEF CallRecord
    <3>2. /\ c \in Seq(CallRecord) /\ Len(c) = n
          /\ e \in Seq(CallRecord) /\ Len(e) = n + 1
          /\ n \in Nat
      BY <2>5, <2>6 DEF Framed
    <3>3. \A k \in 1 .. n : e[k] = c[k]
      BY <2>7
    <3>4. e[n + 1] = r
      BY <2>8
    <3> HIDE DEF n, r, c, e
    <3>5. /\ Append(c, r) \in Seq(CallRecord) /\ Len(Append(c, r)) = n + 1
          /\ \A k \in 1 .. n : Append(c, r)[k] = c[k]
          /\ Append(c, r)[n + 1] = r
      BY <3>1, <3>2, AppendProperties
    <3>6. \A k \in 1 .. n + 1 : e[k] = Append(c, r)[k]
      BY <3>2, <3>3, <3>4, <3>5
    <3>7. e = Append(c, r)
      BY <3>2, <3>5, <3>6, SeqEqual
    <3> QED
      BY <3>7 DEF c, e
  <2>10. Promise!Call(back)
    BY <2>1, <2>9 DEF Promise!Call
  <2> QED
    BY <2>4, <2>10 DEF Promised, Promise!Next
<1> QED
  BY <1>1, <1>2

(* A return takes the last call away, and goes where its frame says. *)
LEMMA ReturnPromised ==
  ASSUME IInv, Cells, IInv', Return
  PROVE  Cells' /\ Promised
<1>1. CASE ~(2 <= stack.bp)
  <2>1. UNCHANGED <<ip, stack, operand, bases>>
    BY <1>1, UnwoundStack DEF Return, Exit, CanPop
  <2> QED
    BY <2>1, CallsUntouched DEF Promised, Promise!vars, Cells
<1>2. CASE 2 <= stack.bp
  <2> DEFINE n == Len(bases)
             b == bases[n]
  <2>1. /\ n >= 2 /\ b = stack.bp
        /\ stack'.sp = b - 2 /\ stack'.data = stack.data
        /\ ip' = stack.data[b - 2]
        /\ Len(bases') = n - 1
        /\ \A k \in 1 .. n - 1 : bases'[k] = bases[k]
        /\ operand' = operand
    BY <1>2, FrameDropped
  <2>2. Cells'
    BY <2>1 DEF Cells
  <2>3. Framed /\ Framed'
    BY <2>2, CallsFramed, CallsFramedNext
  <2>4. n \in Nat \ {0}
    BY <2>3 DEF Framed
  <2>5. ASSUME NEW k \in 1 .. n - 1
        PROVE  Calls'[k] = Calls[k]
    <3>1. k \in 1 .. n /\ k + 1 \in 1 .. n /\ k # n
      BY <2>4
    <3>2. EndOf(bases, stack.sp, k) = bases[k + 1] - 2
      BY <3>1 DEF EndOf
    <3>3. EndOf(bases', stack'.sp, k) = bases[k + 1] - 2
      <4>1. CASE k = n - 1
        <5>1. k + 1 = n
          BY <2>4, <4>1
        <5> QED
          BY <2>1, <4>1, <5>1 DEF EndOf
      <4>2. CASE k # n - 1
        <5>1. k + 1 \in 1 .. n - 1
          BY <2>4, <4>2
        <5> QED
          BY <2>1, <4>2, <5>1 DEF EndOf
      <4> QED
        BY <4>1, <4>2
    <3>4. k \in 1 .. Len(bases') /\ bases'[k] = bases[k]
      BY <2>1
    <3> QED
      BY <2>1, <2>3, <3>1, <3>2, <3>3, <3>4, CallKept
  <2>6. Calls' = Front(Calls)
    <3> DEFINE c == Calls
               e == Calls'
    <3>1. /\ c \in Seq(CallRecord) /\ Len(c) = n
          /\ e \in Seq(CallRecord) /\ Len(e) = n - 1
          /\ n - 1 \in Nat
      BY <2>1, <2>3, <2>4 DEF Framed
    <3>2. \A k \in 1 .. n - 1 : e[k] = c[k]
      BY <2>5
    <3> HIDE DEF n, c, e
    <3>3. c # <<>>
      BY <2>4, <3>1, EmptySeq
    <3>4. /\ Front(c) \in Seq(CallRecord) /\ Len(Front(c)) = n - 1
          /\ \A k \in 1 .. n - 1 : Front(c)[k] = c[k]
      BY <3>1, <3>3, FrontProperties
    <3>5. e = Front(c)
      BY <3>1, <3>2, <3>4, SeqEqual
    <3> QED
      BY <3>5 DEF c, e
  <2>7. Len(Calls) > 1 /\ ip' = Last(Calls).back
    <3>1. n \in 1 .. n /\ n # 1 /\ Len(Calls) = n
      <4>1. Len(Calls) = n
        BY <2>3, Zenon DEF Framed
      <4>2. n >= 2
        BY <2>1, Zenon
      <4> HIDE DEF n
      <4>3. n \in 1 .. n /\ n # 1
        BY <2>4, <4>2
      <4> QED
        BY <4>1, <4>3
    <3>2. Calls[n].back = stack.data[b - 2]
      BY <2>3, <3>1 DEF Framed, CallAt
    <3> QED
      BY <2>1, <2>4, <3>1, <3>2 DEF Last
  <2>8. Promise!Return
    <3>1. operand' = operand
      BY <2>1
    <3> QED
      BY <2>6, <2>7, <3>1 DEF Promise!Return, Promise!Last, Promise!Front, Last, Front
  <2> QED
    BY <2>2, <2>8 DEF Promised, Promise!Next
<1> QED
  BY <1>1, <1>2

(* The running call gains or loses variables, and nothing else changes. *)
LEMMA RunningChanged ==
  ASSUME Framed, Framed', UNCHANGED bases, stack'.data = stack.data,
         NEW v, VarsIn(stack.data, bases[Len(bases)], stack'.sp) = v
  PROVE  /\ Calls[Len(Calls)].locals = VarsIn(stack.data, bases[Len(bases)], stack.sp)
         /\ Calls' = [Calls EXCEPT ![Len(Calls)].locals = v]
<1> DEFINE n == Len(bases)
           b == bases[n]
           d == stack.data
           B(k) == IF k = 1 THEN 0 ELSE d[bases[k] - 2]
<1>1. n \in Nat \ {0} /\ Len(Calls) = n /\ n \in 1 .. n
  BY DEF Framed
<1>2. \A k \in 1 .. n : Calls[k] = CallAt(d, bases[k], EndOf(bases, stack.sp, k), k)
  BY DEF Framed
<1>3. \A k \in 1 .. n : Calls'[k] = CallAt(d, bases[k], EndOf(bases, stack'.sp, k), k)
  BY DEF Framed
<1>4. /\ Calls \in Seq(CallRecord) /\ Calls' \in Seq(CallRecord)
      /\ DOMAIN Calls = 1 .. n /\ DOMAIN Calls' = 1 .. n
  BY DEF Framed
<1>5. \A p : EndOf(bases, p, n) = p
  BY DEF EndOf
<1>6. Calls[n] = [back |-> B(n), locals |-> VarsIn(d, b, stack.sp)]
  BY <1>1, <1>2, <1>5 DEF CallAt
<1>7. Calls'[n] = [back |-> B(n), locals |-> v]
  BY <1>1, <1>3, <1>5 DEF CallAt
<1>8. ASSUME NEW k \in 1 .. n, k # n
      PROVE  Calls'[k] = Calls[k]
  <2>1. EndOf(bases, stack'.sp, k) = EndOf(bases, stack.sp, k)
    BY <1>8 DEF EndOf
  <2> QED
    BY <1>2, <1>3, <2>1
<1> DEFINE c == Calls
           e == Calls'
           r == [c EXCEPT ![n] = [c[n] EXCEPT !.locals = v]]
<1>9. e = r
  <2>1. e[n] = [c[n] EXCEPT !.locals = v]
    BY <1>6, <1>7
  <2>2. /\ c = [k \in 1 .. n |-> c[k]] /\ e = [k \in 1 .. n |-> e[k]]
    BY <1>4, LenProperties
  <2>3. \A k \in 1 .. n : k # n => e[k] = c[k]
    BY <1>8
  <2> HIDE DEF n, c, e
  <2>4. DOMAIN r = 1 .. n /\ r = [k \in 1 .. n |-> r[k]]
    BY <2>2
  <2>5. \A k \in 1 .. n : e[k] = r[k]
    BY <1>1, <2>1, <2>2, <2>3
  <2> QED
    BY <2>2, <2>4, <2>5
<1> QED
  BY <1>1, <1>6, <1>9

(* A new variable's contents are those of its cells. *)
LEMMA DeclarePromised ==
  ASSUME IInv, Cells, IInv', AllocLocal
  PROVE  Cells' /\ Promised
<1> DEFINE n == Len(bases)
           b == bases[n]
           a == stack.sp
           d == stack.data
<1>1. PICK m \in AllocSizes : stack' = [stack EXCEPT !.sp = @ + m]
  BY DEF AllocLocal
<1>2. m \in Nat /\ a \in Nat /\ a + m \in Nat
  <2>1. m \in Nat
    BY CallFramesAssumption
  <2>2. a \in Nat
    BY DEF IInv, StackOfWords
  <2> HIDE DEF a
  <2> QED
    BY <2>1, <2>2
<1>3. stack'.sp = a + m /\ stack'.data = d
  BY <1>1 DEF IInv, StackOfWords
<1>4. ip' \in Address /\ UNCHANGED bases
  BY DEF AllocLocal
<1>5. operand' = operand
  BY DEF AllocLocal
<1>6. Cells'
  BY <1>3, <1>5 DEF Cells
<1>7. Framed /\ Framed'
  BY <1>6, CallsFramed, CallsFramedNext
<1>8. b \in Nat /\ b <= a
  <2>1. n \in 1 .. n
    BY <1>7 DEF Framed
  <2>2. EndOf(bases, stack.sp, n) = a
    BY DEF EndOf
  <2> QED
    BY <1>7, <2>1, <2>2 DEF Framed
<1>9. Contents(d)
  BY DEF Cells, Contents
<1> DEFINE e == a + m
           v == VarsIn(d, b, a)
           w == VarsIn(d, a, e)
           u == VarsIn(d, b, e)
<1> HIDE DEF n, b, a, d
<1>17. e \in Nat /\ b <= e /\ a <= e /\ e - a = m
  BY <1>2, <1>8
<1> HIDE DEF e
<1>10. AreVariables(v, d, b, a)
  BY <1>2, <1>8, <1>9, VariablesIn
<1>11. AreVariables(w, d, a, e)
  BY <1>2, <1>9, <1>17, VariablesIn
<1>12. AreVariables(u, d, b, e)
  BY <1>2, <1>8, <1>9, <1>17, VariablesIn
<1>18. v \in Seq(Content) /\ w \in Seq(Content) /\ u \in Seq(Content)
  BY <1>10, <1>11, <1>12 DEF AreVariables
<1>19. Len(v) = a - b /\ Len(w) = e - a /\ Len(u) = e - b
  BY <1>10, <1>11, <1>12 DEF AreVariables
<1> HIDE DEF v, w, u
<1>13. u = v \o w
  <2>1. /\ v \o w \in Seq(Content) /\ Len(v \o w) = Len(v) + Len(w)
        /\ \A i \in 1 .. Len(v) + Len(w) :
             (v \o w)[i] = IF i <= Len(v) THEN v[i] ELSE w[i - Len(v)]
    BY <1>18, ConcatProperties
  <2>2. Len(u) = Len(v \o w)
    BY <1>2, <1>8, <1>17, <1>19, <2>1
  <2>3. ASSUME NEW i \in 1 .. e - b
        PROVE  u[i] = (v \o w)[i]
    <3>1. u[i] = IF b + i - 1 < STACK_SIZE THEN d[b + i - 1] ELSE 0
      BY <1>12 DEF AreVariables
    <3>2. i \in 1 .. Len(v) + Len(w)
      BY <1>2, <1>8, <1>17, <1>19
    <3>3. (v \o w)[i] = IF i <= a - b THEN v[i] ELSE w[i - (a - b)]
      BY <1>19, <2>1, <3>2
    <3>4. CASE i <= a - b
      <4>1. i \in 1 .. a - b
        BY <1>2, <1>8, <1>17, <3>4
      <4> QED
        BY <1>10, <3>1, <3>3, <3>4, <4>1 DEF AreVariables
    <3>5. CASE ~(i <= a - b)
      <4> DEFINE j == i - (a - b)
      <4>1. j \in 1 .. e - a /\ a + j - 1 = b + i - 1
        BY <1>2, <1>8, <1>17, <3>5
      <4>2. w[j] = IF a + j - 1 < STACK_SIZE THEN d[a + j - 1] ELSE 0
        BY <1>11, <4>1 DEF AreVariables
      <4> QED
        BY <3>1, <3>3, <3>5, <4>1, <4>2
    <3> QED
      BY <3>4, <3>5
  <2> QED
    BY <1>18, <1>19, <2>1, <2>2, <2>3, SeqEqual
<1>14. w \in [1 .. m -> Content]
  BY <1>17, <1>18, <1>19, LenProperties
<1>15. Calls' = [Calls EXCEPT ![Len(Calls)].locals = @ \o w]
  <2>1. VarsIn(stack.data, bases[Len(bases)], stack'.sp) = v \o w
    BY <1>3, <1>13 DEF u, e, d, b, n, a
  <2>2. /\ Calls[Len(Calls)].locals = VarsIn(stack.data, bases[Len(bases)], stack.sp)
        /\ Calls' = [Calls EXCEPT ![Len(Calls)].locals = v \o w]
    BY <1>3, <1>4, <1>7, <2>1, RunningChanged DEF d
  <2>3. Calls[Len(Calls)].locals = v
    BY <2>2 DEF v, d, b, n, a
  <2> QED
    BY <2>2, <2>3
<1>16. Promise!Declare(m)
  BY <1>4, <1>5, <1>14, <1>15 DEF Promise!Declare, Content
<1> QED
  BY <1>6, <1>16 DEF Promised, Promise!Next

LEMMA DropPromised ==
  ASSUME IInv, Cells, IInv', FreeLocal
  PROVE  Cells' /\ Promised
<1> DEFINE n == Len(bases)
           b == bases[n]
           a == stack.sp
           d == stack.data
<1>1. stack' = Pop(stack, 1) /\ stack.sp > stack.bp
  BY DEF FreeLocal
<1>2. a \in Nat /\ b = stack.bp
  BY BasesProperties DEF IInv, TypeOK, FramesLinked
<1>3. stack'.sp = a - 1 /\ stack'.data = d
  BY <1>1 DEF IInv, StackOfWords, Pop
<1>4. ip' \in Address /\ UNCHANGED bases
  BY DEF FreeLocal
<1>5. operand' = operand
  BY DEF FreeLocal
<1>6. Cells'
  BY <1>3, <1>5 DEF Cells
<1>7. Framed /\ Framed'
  BY <1>6, CallsFramed, CallsFramedNext
<1>8. b \in Nat /\ b < a /\ a - 1 \in Nat
  BY <1>1, <1>2 DEF IInv, TypeOK
<1>9. Contents(d)
  BY DEF Cells, Contents
<1> DEFINE v == VarsIn(d, b, a)
           u == VarsIn(d, b, a - 1)
<1> HIDE DEF n, b, a, d
<1>16. b <= a /\ b <= a - 1 /\ a - 1 - b = a - b - 1 /\ a - b \in Nat /\ a - b # 0
  BY <1>2, <1>8
<1>10. AreVariables(v, d, b, a)
  BY <1>2, <1>8, <1>9, <1>16, VariablesIn
<1>11. AreVariables(u, d, b, a - 1)
  BY <1>8, <1>9, <1>16, VariablesIn
<1> HIDE DEF v, u
<1>12. v # <<>> /\ v \in Seq(Content) /\ Len(v) = a - b
  BY <1>10, <1>16 DEF AreVariables
<1>13. u = Front(v)
  <2>1. /\ Front(v) \in Seq(Content) /\ Len(Front(v)) = a - b - 1
        /\ \A i \in 1 .. a - b - 1 : Front(v)[i] = v[i]
    BY <1>12, FrontProperties
  <2>2. u \in Seq(Content) /\ Len(u) = a - b - 1
    BY <1>11, <1>16 DEF AreVariables
  <2>3. ASSUME NEW i \in 1 .. a - b - 1
        PROVE  u[i] = Front(v)[i]
    <3>1. i \in 1 .. a - b /\ i \in 1 .. a - 1 - b
      BY <1>2, <1>8
    <3>2. u[i] = v[i]
      BY <1>10, <1>11, <3>1 DEF AreVariables
    <3> QED
      BY <2>1, <3>2
  <2> QED
    BY <2>1, <2>2, <2>3, SeqEqual
<1>14. /\ Calls[Len(Calls)].locals = v
       /\ Calls' = [Calls EXCEPT ![Len(Calls)].locals = Front(@)]
  <2>1. VarsIn(stack.data, bases[Len(bases)], stack'.sp) = Front(v)
    BY <1>3, <1>13 DEF u, d, b, n
  <2>2. /\ Calls[Len(Calls)].locals = VarsIn(stack.data, bases[Len(bases)], stack.sp)
        /\ Calls' = [Calls EXCEPT ![Len(Calls)].locals = Front(v)]
    BY <1>3, <1>4, <1>7, <2>1, RunningChanged DEF d
  <2>3. Calls[Len(Calls)].locals = v
    BY <2>2 DEF v, d, b, n, a
  <2> QED
    BY <2>2, <2>3
<1>15. Promise!Drop
  <2>1. Promise!Last(Calls) = Calls[Len(Calls)] /\ \A s : Promise!Front(s) = Front(s)
    BY DEF Promise!Last, Promise!Front, Front
  <2> QED
    BY <1>4, <1>5, <1>12, <1>14, <2>1 DEF Promise!Drop
<1> QED
  BY <1>6, <1>15 DEF Promised, Promise!Next

(* The variables that an instruction can name are those of the running call  *)
(* or of the task's own code.                                                *)
LEMMA VisibleVariable ==
  ASSUME IInv, Framed, NEW a \in Locals \cup OfTask
  PROVE  \E k \in {1, Len(bases)} : a \in bases[k] .. EndOf(bases, stack.sp, k) - 1
<1> DEFINE n == Len(bases)
<1>1. n \in Nat \ {0} /\ stack.sp \in Nat /\ stack.bp \in Nat /\ bases[1] = 0
  BY DEF IInv, TypeOK, Framed, FramesLinked
<1>2. stack.bp = bases[n]
  BY BasesProperties DEF IInv, FramesLinked
<1>3. CASE a \in Locals
  <2>1. PICK o \in 0 .. stack.sp - stack.bp - 1 : a = stack.bp + o
    BY <1>3 DEF Locals, Variable
  <2>2. EndOf(bases, stack.sp, n) = stack.sp
    BY DEF EndOf
  <2>3. a \in stack.bp .. stack.sp - 1
    BY <1>1, <2>1
  <2> QED
    BY <1>2, <2>2, <2>3
<1>4. CASE a \in OfTask
  <2>1. EndOf(bases, stack.sp, 1) = IF n = 1 THEN stack.sp ELSE bases[2] - 2
    BY DEF EndOf
  <2>2. a \in 0 .. EndOf(bases, stack.sp, 1) - 1
    BY <1>4, <2>1 DEF OfTask
  <2> QED
    BY <1>1, <2>2
<1> QED
  BY <1>3, <1>4

(* Where a variable is: its cell, as long as that is inside the array. *)
CellOf(k, a) ==
  /\ a - bases[k] + 1 \in DOMAIN Calls[k].locals
  /\ a < STACK_SIZE => Calls[k].locals[a - bases[k] + 1] = stack.data[a]

LEMMA VariableCell ==
  ASSUME Framed, NEW k \in 1 .. Len(bases),
         NEW a \in bases[k] .. EndOf(bases, stack.sp, k) - 1
  PROVE  CellOf(k, a)
<1> DEFINE b == bases[k]
           e == EndOf(bases, stack.sp, k)
           d == stack.data
<1>1. Calls[k] = CallAt(d, b, e, k)
  BY DEF Framed
<1>2. b \in Nat /\ e \in Nat
  BY DEF Framed
<1>3. a \in b .. e - 1
  OBVIOUS
<1> HIDE DEF b, e, d
<1>4. a - b + 1 \in 1 .. e - b /\ b + (a - b + 1) - 1 = a
  BY <1>2, <1>3
<1>5. Calls[k].locals = VarsIn(d, b, e)
  BY <1>1 DEF CallAt
<1>6. VarsIn(d, b, e)[a - b + 1] = IF a < STACK_SIZE THEN d[a] ELSE 0
  BY <1>4 DEF VarsIn
<1>7. a - b + 1 \in DOMAIN VarsIn(d, b, e)
  BY <1>4 DEF VarsIn
<1> QED
  BY <1>5, <1>6, <1>7 DEF CellOf, b, d

OneCellWritten(c, d, a, w) ==
  \A i \in 0 .. STACK_SIZE - 1 : c[i] = IF i = a THEN w ELSE d[i]

LEMMA VariableWritten ==
  ASSUME NEW d, NEW c, NEW b \in Nat, NEW e \in Nat, b <= e,
         NEW a \in b .. e - 1, a < STACK_SIZE, NEW w, OneCellWritten(c, d, a, w)
  PROVE  VarsIn(c, b, e) = [VarsIn(d, b, e) EXCEPT ![a - b + 1] = w]
<1> DEFINE F(f, i) == IF b + i - 1 < STACK_SIZE THEN f[b + i - 1] ELSE 0
           j == a - b + 1
<1>1. j \in 1 .. e - b /\ \A i \in 1 .. e - b : b + i - 1 = a <=> i = j
  OBVIOUS
<1>2. ASSUME NEW i \in 1 .. e - b
      PROVE  F(c, i) = IF i = j THEN w ELSE F(d, i)
  <2>1. b + i - 1 \in Nat
    OBVIOUS
  <2>2. CASE b + i - 1 < STACK_SIZE
    <3>1. b + i - 1 \in 0 .. STACK_SIZE - 1
      BY <2>1, <2>2, CallFramesAssumption
    <3> QED
      BY <1>1, <2>2, <3>1 DEF OneCellWritten
  <2>3. CASE ~(b + i - 1 < STACK_SIZE)
    BY <1>1, <2>3
  <2> QED
    BY <2>2, <2>3
<1>3. /\ VarsIn(c, b, e) = [i \in 1 .. e - b |-> F(c, i)]
      /\ VarsIn(d, b, e) = [i \in 1 .. e - b |-> F(d, i)]
  BY DEF VarsIn
<1> HIDE DEF F, j
<1>4. VarsIn(c, b, e) = [VarsIn(d, b, e) EXCEPT ![j] = w]
  BY <1>1, <1>2, <1>3
<1> QED
  BY <1>4 DEF j

(* The word at place i of call k is in a cell of its own. *)
LEMMA ReadPromised ==
  ASSUME IInv, Cells, NEW a \in Locals \cup OfTask, Read(a)
  PROVE  Cells' /\ Promised
<1>1. CASE ~(a < STACK_SIZE)
  <2>1. UNCHANGED <<ip, stack, operand, bases>>
    BY <1>1 DEF Read, Exit
  <2> QED
    BY <2>1, CallsUntouched DEF Promised, Promise!vars, Cells
<1>2. CASE a < STACK_SIZE
  <2>1. UNCHANGED <<stack, bases>> /\ ip' \in Address
    BY <1>2 DEF Read
  <2>2. a \in Nat /\ STACK_SIZE \in Nat /\ stack \in StackOfWords
    BY VariablesAreNotLinks, CallFramesAssumption DEF IInv
  <2>3. operand' = stack.data[a]
    BY <1>2, <2>2, WordRead DEF Read
  <2>4. stack.data[a] \in Content
    BY <1>2, <2>2 DEF Cells
  <2>5. Cells'
    BY <2>1, <2>3, <2>4 DEF Cells
  <2>6. Framed
    BY CallsFramed
  <2>7. PICK k \in {1, Len(bases)} : a \in bases[k] .. EndOf(bases, stack.sp, k) - 1
    BY <2>6, VisibleVariable
  <2> DEFINE i == a - bases[k] + 1
  <2>8. CellOf(k, a)
    <3>1. k \in 1 .. Len(bases)
      <4>1. Len(bases) \in Nat \ {0}
        BY <2>6 DEF Framed
      <4> QED
        BY <2>7, <4>1
    <3> QED
      BY <2>6, <2>7, <3>1, VariableCell
  <2>9. /\ k \in Promise!Visible
        /\ i \in DOMAIN Calls[k].locals
        /\ Calls[k].locals[i] = stack.data[a]
    BY <1>2, <2>6, <2>7, <2>8 DEF CellOf, Promise!Visible, Framed
  <2>10. UNCHANGED Calls
    BY <2>1, CallsUntouched
  <2>11. Promise!Read(k, i)
    <3> HIDE DEF i
    <3> QED
      BY <2>1, <2>3, <2>9, <2>10 DEF Promise!Read
  <2> QED
    BY <2>5, <2>9, <2>11 DEF Promised, Promise!Next
<1> QED
  BY <1>1, <1>2

LEMMA WritePromised ==
  ASSUME IInv, Cells, IInv', NEW a \in Locals \cup OfTask, Write(a)
  PROVE  Cells' /\ Promised
<1>0. /\ a \in Nat /\ a < stack.sp /\ STACK_SIZE \in Nat /\ stack \in StackOfWords
      /\ stack.size = STACK_SIZE /\ operand \in Nat /\ stack.sp \in Nat
  BY VariablesAreNotLinks, CallFramesAssumption DEF IInv, TypeOK
<1>1. CASE ~CanWriteAt(stack, 1, a)
  <2>1. UNCHANGED <<ip, stack, operand, bases>>
    BY <1>1 DEF Write, Exit
  <2> QED
    BY <2>1, CallsUntouched DEF Promised, Promise!vars, Cells
<1>2. CASE CanWriteAt(stack, 1, a)
  <2>1. a < STACK_SIZE
    BY <1>0, <1>2 DEF CanWriteAt
  <2>2. /\ stack' = WriteAt(stack, <<operand>>, a) /\ ip' \in Address
        /\ UNCHANGED <<operand, bases>>
    BY <1>2 DEF Write
  <2>3. /\ stack'.sp = stack.sp
        /\ \A i \in 0 .. STACK_SIZE - 1 :
             stack'.data[i] = IF i = a THEN operand ELSE stack.data[i]
    <3>1. /\ WriteAt(stack, <<operand>>, a).sp = IF a + 1 > stack.sp THEN a + 1 ELSE stack.sp
          /\ \A i \in 0 .. STACK_SIZE - 1 :
               WriteAt(stack, <<operand>>, a).data[i] = IF i = a THEN operand ELSE stack.data[i]
      BY <1>0, <2>1, WrittenWord
    <3>2. (IF a + 1 > stack.sp THEN a + 1 ELSE stack.sp) = stack.sp
      BY <1>0
    <3> QED
      BY <2>2, <3>1, <3>2
  <2>4. Cells'
    BY <2>2, <2>3 DEF Cells
  <2>5. Framed /\ Framed'
    BY <2>4, CallsFramed, CallsFramedNext
  <2>6. PICK k \in {1, Len(bases)} : a \in bases[k] .. EndOf(bases, stack.sp, k) - 1
    BY <2>5, VisibleVariable
  <2> DEFINE n == Len(bases)
             i == a - bases[k] + 1
             E(j) == EndOf(bases, stack.sp, j)
  <2>13. n \in Nat \ {0} /\ \A j \in 2 .. n : 2 <= bases[j] /\ bases[j] <= STACK_SIZE
    BY <2>5 DEF Framed
  <2>14. k \in 1 .. n
    <3>1. k = 1 \/ k = n
      OBVIOUS
    <3>2. n \in Nat \ {0}
      BY <2>13, Zenon
    <3> HIDE DEF n
    <3> QED
      BY <3>1, <3>2
  <2>7. /\ DOMAIN Calls = 1 .. n /\ DOMAIN Calls' = 1 .. n
        /\ Calls \in Seq(CallRecord) /\ Calls' \in Seq(CallRecord) /\ Len(Calls) = n
    <3>1. /\ DOMAIN Calls = 1 .. n /\ Len(Calls) = n /\ Calls \in Seq(CallRecord)
      BY <2>5, Zenon DEF Framed
    <3>2. DOMAIN Calls' = 1 .. Len(bases') /\ Calls' \in Seq(CallRecord)
      BY <2>5, Zenon DEF Framed
    <3>3. Len(bases') = n
      BY <2>2, Zenon
    <3> QED
      BY <3>1, <3>2, <3>3, Zenon
  <2>15. \A j \in 1 .. n : bases[j] \in Nat
    BY <2>5 DEF Framed
  <2>8. ASSUME NEW j \in 1 .. n, j # k
        PROVE  Calls'[j] = Calls[j]
    <3>1. j \in 1 .. Len(bases') /\ bases'[j] = bases[j]
          /\ EndOf(bases', stack'.sp, j) = EndOf(bases, stack.sp, j)
      BY <2>2, <2>3 DEF EndOf
    <3>2. a \notin bases[j] .. E(j) - 1
      <4>1. /\ bases[j] \in Nat /\ E(j) \in Nat /\ bases[k] \in Nat /\ E(k) \in Nat
            /\ bases[j] <= E(j) /\ bases[k] <= E(k)
            /\ j < k => E(j) + 2 <= bases[k]
            /\ k < j => E(k) + 2 <= bases[j]
        BY <2>5, <2>14 DEF Framed
      <4> HIDE DEF E
      <4>2. CASE j < k
        BY <1>0, <2>6, <4>1, <4>2 DEF E
      <4>3. CASE k < j
        BY <1>0, <2>6, <4>1, <4>3 DEF E
      <4>4. j < k \/ k < j
        <5> HIDE DEF n
        <5> QED
          BY <2>8, <2>14
      <4> QED
        BY <4>2, <4>3, <4>4, Zenon
    <3>3. \A c \in 0 .. STACK_SIZE - 1 :
            c \in bases[j] .. E(j) - 1 => stack'.data[c] = stack.data[c]
      BY <2>3, <3>2
    <3>4. j # 1 => stack'.data[bases[j] - 2] = stack.data[bases[j] - 2]
      <4> SUFFICES ASSUME j # 1
                   PROVE  stack'.data[bases[j] - 2] = stack.data[bases[j] - 2]
        OBVIOUS
      <4>1. j \in 2 .. n /\ 2 <= bases[j] /\ bases[j] <= STACK_SIZE /\ bases[j] \in Nat
        BY <2>13, <2>15
      <4>2. bases[j] - 2 \in 0 .. STACK_SIZE - 1 /\ a # bases[j] - 2
        BY <1>0, <4>1, VariablesAreNotLinks
      <4> QED
        BY <2>3, <4>2
    <3> QED
      BY <2>5, <3>1, <3>3, <3>4, CallKept
  <2>9. /\ i \in DOMAIN Calls[k].locals
        /\ Calls'[k] = [Calls[k] EXCEPT !.locals[i] = operand]
    <3> DEFINE b == bases[k]
               e == E(k)
               d == stack.data
               c == stack'.data
    <3>1. Calls[k] = CallAt(d, b, e, k) /\ b \in Nat /\ e \in Nat /\ b <= e
      BY <2>5, <2>14 DEF Framed
    <3>2. Calls'[k] = CallAt(c, b, e, k)
      <4>1. k \in 1 .. Len(bases') /\ bases'[k] = b /\ EndOf(bases', stack'.sp, k) = e
        BY <2>2, <2>3, <2>14 DEF EndOf
      <4> QED
        BY <2>5, <4>1 DEF Framed
    <3>3. (IF k = 1 THEN 0 ELSE c[b - 2]) = IF k = 1 THEN 0 ELSE d[b - 2]
      <4> SUFFICES ASSUME k # 1 PROVE c[b - 2] = d[b - 2]
        OBVIOUS
      <4>1. k \in 2 .. n /\ 2 <= b /\ b <= STACK_SIZE
        BY <2>13, <2>14
      <4>2. b - 2 \in 0 .. STACK_SIZE - 1 /\ a # b - 2
        BY <1>0, <3>1, <4>1, VariablesAreNotLinks
      <4> QED
        BY <2>3, <4>2
    <3>4. a \in b .. e - 1
      BY <2>6
    <3> HIDE DEF n, b, e, c, d
    <3>5. VarsIn(c, b, e) = [VarsIn(d, b, e) EXCEPT ![a - b + 1] = operand]
      <4> DEFINE w == operand
      <4>1. OneCellWritten(c, d, a, w)
        BY <2>3 DEF c, d, OneCellWritten
      <4>2. b \in Nat /\ e \in Nat /\ b <= e
        BY <3>1
      <4> HIDE DEF w
      <4>3. VarsIn(c, b, e) = [VarsIn(d, b, e) EXCEPT ![a - b + 1] = w]
        BY <2>1, <3>4, <4>1, <4>2, VariableWritten
      <4> QED
        BY <4>3 DEF w
    <3>6. a - b + 1 \in DOMAIN VarsIn(d, b, e)
      BY <1>0, <3>1, <3>4 DEF VarsIn
    <3>7. Calls[k].locals = VarsIn(d, b, e)
      BY <3>1 DEF CallAt
    <3>8. Calls'[k] = [Calls[k] EXCEPT !.locals = VarsIn(c, b, e)]
      BY <3>1, <3>2, <3>3 DEF CallAt
    <3> QED
      BY <3>5, <3>6, <3>7, <3>8 DEF b
  <2>10. Calls' = [Calls EXCEPT ![k].locals[i] = operand]
    <3> DEFINE c == Calls
               e == Calls'
               v == [c[k] EXCEPT !.locals[i] = operand]
    <3>1. /\ c = [j \in 1 .. n |-> c[j]] /\ e = [j \in 1 .. n |-> e[j]]
      BY <2>7, LenProperties
    <3>2. e[k] = v
      BY <2>9
    <3>3. \A j \in 1 .. n : j # k => e[j] = c[j]
      BY <2>8
    <3> HIDE DEF n, c, e, v
    <3>4. e = [c EXCEPT ![k] = v]
      BY <2>14, <3>1, <3>2, <3>3
    <3> QED
      BY <3>4 DEF c, e, v
  <2>11. k \in Promise!Visible
    BY <2>6, <2>7 DEF Promise!Visible
  <2>12. Promise!Write(k, i)
    <3> HIDE DEF i
    <3>1. operand' = operand /\ ip' \in Address
      BY <2>2
    <3> QED
      BY <2>9, <2>10, <3>1 DEF Promise!Write
  <2> QED
    BY <2>4, <2>9, <2>11, <2>12 DEF Promised, Promise!Next
<1> QED
  BY <1>1, <1>2

LEMMA StepPromised == IInv /\ Cells /\ IInv' /\ [Next]_vars => Cells' /\ Promised
<1> SUFFICES ASSUME IInv, Cells, IInv', [Next]_vars
             PROVE  Cells' /\ Promised
  OBVIOUS
<1>1. CASE Execute
  <2>1. /\ ip' \in Address /\ operand' \in Content /\ UNCHANGED <<stack, bases>>
    BY <1>1 DEF Execute, Content
  <2>2. Cells'
    BY <2>1 DEF Cells
  <2>3. Promise!Step
    BY <2>1, CallsUntouched DEF Promise!Step, Content
  <2> QED
    BY <2>2, <2>3 DEF Promised, Promise!Next
<1>2. CASE Call
  BY <1>2, CallPromised DEF Call
<1>3. CASE HandleMessage
  BY <1>3, CallPromised, CallFramesAssumption DEF HandleMessage, IInv, TypeOK
<1>4. CASE Return
  BY <1>4, ReturnPromised
<1>5. CASE AllocLocal
  BY <1>5, DeclarePromised
<1>6. CASE FreeLocal
  BY <1>6, DropPromised
<1>7. CASE PushLocal
  BY <1>7, ReadPromised DEF PushLocal
<1>8. CASE PopLocal
  BY <1>8, WritePromised DEF PopLocal
<1>9. CASE LoadI16
  BY <1>9, ReadPromised DEF LoadI16
<1>10. CASE StoreI16
  BY <1>10, WritePromised DEF StoreI16
<1>11. CASE UNCHANGED vars
  <2>1. UNCHANGED <<ip, stack, operand, bases>>
    BY <1>11 DEF vars
  <2> QED
    BY <2>1, CallsUntouched DEF Promised, Promise!vars, Cells
<1> QED
  BY <1>1, <1>2, <1>3, <1>4, <1>5, <1>6, <1>7, <1>8, <1>9, <1>10, <1>11 DEF Next, Stopped

(* Read off one array of words, the calls in progress have each its own      *)
(* variables and its way back, also when a message handler is called between *)
(* any two instructions: CallFrames implements CallStack.                    *)
THEOREM CallFramesAreNested == Spec => CallsAreNested
<1>1. Init => Promise!Init
  BY InitPromised
<1>2. IInv /\ Cells /\ IInv' /\ [Next]_vars => [Promise!Next]_(Promise!vars)
  BY StepPromised DEF Promised
<1>3. IInv /\ Cells /\ IInv' /\ [Next]_vars => Cells'
  BY StepPromised
<1> QED
  BY <1>1, <1>2, <1>3, InitCells, Inductive, PTL DEF Spec, CallsAreNested, Promise!Spec

=============================================================================
